---- MODULE Spec2Model ----
(***************************************************************************)
(* A model of the key-value server of src/CustomHashtable/main.cpp: the    *)
(* request framer, the command dispatcher over the progressive-rehash      *)
(* hash map, and the poll-driven event loop with its per-connection        *)
(* state machine.  Bytes are integers 0..255; buffers are sequences of     *)
(* bytes; 32-bit values are little-endian, as on the platforms the server  *)
(* is built for.  The module also models the sorted set of                 *)
(* src/RedisMain/zset.cpp, driven by a caller of its functions, and the    *)
(* thread pool of thread_pool.cpp, driven by submitting threads.           *)
(* The hash map, the intrusive list of list.h, the TTL heap and the        *)
(* BasicKeyValueStore program are each driven by a caller of their own.    *)
(***************************************************************************)
EXTENDS Integers, Sequences, FiniteSets, TLC

VARIABLES
    db,         \* g_data.db: the top-level HMap
    fd2conn,    \* main's fd2conn: function 0..size-1 -> Conn or NULL
    poll_args,  \* main's poll_args: sequence of [fd, events, revents]
    pc,         \* position of the event loop inside one iteration
    idx,        \* the loop variable i of "for each connection socket" (1-based)
    socks,      \* kernel: the sockets open in the server, by fd
    backlog,    \* kernel: connections completed but not yet accepted, FIFO
    waiting,    \* clients that have not connected yet (their scripts)
    io,         \* outcome of the last accept/read/write system call
    aborted,    \* "no", or the assertion that ended the process
    wake,       \* what was pending when the current iteration woke up
    hist,       \* per connection: the requests executed and the bytes generated
    zs,         \* a ZSet: its hmap, its root and the ZNodes allocated
    zcall,      \* the last call on the ZSet, its arguments and what it returned
    pool,       \* a ThreadPool: threads, queue, mu, not_empty
    thread,     \* the threads using the pool: where each is, what it holds
    jobs,       \* the jobs in the order queued, taken and run
    htable,     \* an HMap under a caller of hm_insert/hm_lookup/hm_delete
    dl,         \* the DList nodes in memory: their next and prev links
    ttl,        \* the TTL heap and the heap_index of every Entry
    basic       \* BasicKeyValueStore: g_data, the Conn and the requests made

vars == <<db, fd2conn, poll_args, pc, idx, socks, backlog, waiting, io,
          aborted, wake, hist, zs, zcall, pool, thread, jobs,
                   htable, dl, ttl, basic>>

\* The null pointer: a record no Conn, node or address equals.
NULL == [null |-> TRUE]

----------------------------------------------------------------------------
(* Sequence helpers.                                                       *)

Min(a, b) == IF a < b THEN a ELSE b

Max(a, b) == IF a > b THEN a ELSE b

Take(s, n) == SubSeq(s, 1, Max(0, Min(n, Len(s))))

Drop(s, n) == SubSeq(s, Max(0, Min(n, Len(s))) + 1, Len(s))

RECURSIVE Flatten(_)
Flatten(ss) == IF ss = <<>> THEN <<>> ELSE Head(ss) \o Flatten(Tail(ss))

IsPrefix(p, s) == Len(p) <= Len(s) /\ SubSeq(s, 1, Len(p)) = p

IsSuffix(p, s) == Len(p) <= Len(s) /\ SubSeq(s, Len(s) - Len(p) + 1, Len(s)) = p

----------------------------------------------------------------------------
(* Buffers and 32-bit little-endian integers.                              *)

k_max_msg == 33554432

k_max_args == 200000

ReadBufSize == 65536

\* memcpy(&out, cur, 4) on a little-endian host.
u32_decode(b) == b[1] + 256 * b[2] + 65536 * b[3] + 16777216 * b[4]

\* The four bytes memcpy/buf_append copies out of a uint32_t.
u32_encode(n) ==
    << n % 256, (n \div 256) % 256, (n \div 65536) % 256, (n \div 16777216) % 256 >>

buf_append(buf, data) == buf \o data

\* Removing one byte too many from the front.
buf_consume_one_more(buf, n) == SubSeq(buf, n + 2, Len(buf))

buf_consume(buf, n) == SubSeq(buf, n + 1, Len(buf))

\* read_u32 on the payload `data` with the cursor at offset `at` (0-based).
read_u32(data, at) ==
    IF at + 4 > Len(data)
    THEN [ok |-> FALSE, at |-> at, out |-> 0]
    ELSE [ok |-> TRUE, at |-> at + 4, out |-> u32_decode(SubSeq(data, at + 1, at + 4))]

read_str(data, at, n) ==
    IF at + n > Len(data)
    THEN [ok |-> FALSE, at |-> at, out |-> <<>>]
    ELSE [ok |-> TRUE, at |-> at + n, out |-> SubSeq(data, at + 1, at + n)]

\* The while loop of parse_req: reads strings until out holds nstr of them.
RECURSIVE parse_strs(_, _, _, _)
parse_strs(data, at, nstr, out) ==
    IF Len(out) < nstr
    THEN LET l == read_u32(data, at) IN
         IF ~l.ok THEN [rc |-> -1, out |-> out]
         ELSE LET s == read_str(data, l.at, l.out) IN
              IF ~s.ok THEN [rc |-> -1, out |-> Append(out, <<>>)]
              ELSE parse_strs(data, s.at, nstr, Append(out, s.out))
    ELSE IF at # Len(data)
         THEN [rc |-> -1, out |-> out]
         ELSE [rc |-> 0, out |-> out]

\* A parser whose failures are reported as success.
parse_req_never_fails(data) ==
    LET n == read_u32(data, 0) IN
    IF ~n.ok \/ n.out > k_max_args THEN [rc |-> 0, out |-> <<>>]
    ELSE [parse_strs(data, n.at, n.out, <<>>) EXCEPT !.rc = 0]

parse_req(data) ==
    LET n == read_u32(data, 0) IN
    IF ~n.ok THEN [rc |-> -1, out |-> <<>>]
    ELSE IF n.out > k_max_args THEN [rc |-> -1, out |-> <<>>]
    ELSE parse_strs(data, n.at, n.out, <<>>)

----------------------------------------------------------------------------
(* Response and its status codes.                                          *)

RES_OK == 0

RES_ERR == 1

RES_NX == 2

Response == [status |-> 0, data |-> <<>>]

\* A length header that counts the data and forgets the status field.
make_response_short_len(resp, out) ==
    buf_append(buf_append(buf_append(out, u32_encode(Len(resp.data))),
                          u32_encode(resp.status)),
               resp.data)

make_response(resp, out) ==
    LET resp_len == 4 + Len(resp.data) IN
    buf_append(buf_append(buf_append(out, u32_encode(resp_len)),
                          u32_encode(resp.status)),
               resp.data)

----------------------------------------------------------------------------
(* FNV hash over 32 bits, computed on two 16-bit limbs <<hi, lo>> so that  *)
(* every intermediate value stays inside 32-bit signed integers.           *)

\* uint32_t h = 0x811C9DC5
fnv_seed == << 33052, 40389 >>

\* h = (h + byte) * 0x01000193 (mod 2^32); 0x01000193 = 256 * 2^16 + 403
fnv_step(h, byte) ==
    LET lo1 == h[2] + byte
        lo  == lo1 % 65536
        hi  == (h[1] + lo1 \div 65536) % 65536
        p   == lo * 403
    IN  << (hi * 403 + lo * 256 + p \div 65536) % 65536, p % 65536 >>

RECURSIVE str_hash_from(_, _, _)
str_hash_from(h, data, i) ==
    IF i > Len(data) THEN h ELSE str_hash_from(fnv_step(h, data[i]), data, i + 1)

str_hash(data) == str_hash_from(fnv_seed, data, 1)

----------------------------------------------------------------------------
(* The progressive-rehash hash map behind hashtable.h.  An HTab is         *)
(* [tab, mask, size]; tab is a sequence of chains (slot p of the C array   *)
(* is tab[p + 1]), each chain a sequence of nodes with the head first, and *)
(* tab = <<>> is the null table.  A node is a record with an hcode field.  *)

k_init_cap == 4

k_max_load_factor == 8

k_rehashing_work == 128

HTab0 == [tab |-> <<>>, mask |-> 0, size |-> 0]

HMap0 == [newer |-> HTab0, older |-> HTab0, migrate_pos |-> 0]

\* hcode & mask, for a mask below 2^16
h_pos(hcode, mask) == hcode[2] % (mask + 1)

h_init(n) == [tab |-> [i \in 1..n |-> <<>>], mask |-> n - 1, size |-> 0]

h_insert(htab, node) ==
    LET pos == h_pos(node.hcode, htab.mask) IN
    [htab EXCEPT !.tab[pos + 1] = <<node>> \o @, !.size = @ + 1]

\* The equality callbacks of the callers, passed by name.
entry_eq(lhs, rhs) == lhs.key = rhs.key

\* memcmp over the first n bytes: the sign of the first difference.
memcmp(a, b, n) ==
    IF \A i \in 1..n : a[i] = b[i] THEN 0
    ELSE IF a[CHOOSE i \in 1..n : a[i] # b[i] /\ \A j \in 1..(i - 1) : a[j] = b[j]]
            < b[CHOOSE i \in 1..n : a[i] # b[i] /\ \A j \in 1..(i - 1) : a[j] = b[j]]
    THEN -1
    ELSE 1

znode_eq(lhs, rhs) ==
    Len(lhs.name) = Len(rhs.name) /\ memcmp(lhs.name, rhs.name, Len(lhs.name)) = 0

\* eq(node, key)
call_eq(eq, lhs, rhs) ==
    \/ eq = "entry_eq" /\ entry_eq(lhs, rhs)
    \/ eq = "znode_eq" /\ znode_eq(lhs, rhs)

\* The address of the link that points at the node: [pos, i], or NULL.
h_lookup(htab, key, eq) ==
    IF htab.tab = <<>> THEN NULL
    ELSE LET pos   == h_pos(key.hcode, htab.mask)
             chain == htab.tab[pos + 1]
             hits  == {i \in 1..Len(chain) :
                          chain[i].hcode = key.hcode /\ call_eq(eq, chain[i], key)}
         IN  IF hits = {} THEN NULL
             ELSE [pos |-> pos, i |-> CHOOSE i \in hits : \A j \in hits : i <= j]

h_detach(htab, from) ==
    LET chain == htab.tab[from.pos + 1] IN
    [htab |-> [htab EXCEPT !.tab[from.pos + 1] =
                               SubSeq(chain, 1, from.i - 1)
                               \o SubSeq(chain, from.i + 1, Len(chain)),
                           !.size = @ - 1],
     node |-> chain[from.i]]

\* Taking the node out of older without putting it into newer.
hm_move_node_lost(hmap, d) == [hmap EXCEPT !.older = d.htab]

\* Moves one detached node d = [htab, node] of older into newer.
hm_move_node(hmap, d) ==
    [hmap EXCEPT !.older = d.htab, !.newer = h_insert(hmap.newer, d.node)]

\* Moves every node of bucket migrate_pos of older into newer, head first.
RECURSIVE hm_move_bucket(_)
hm_move_bucket(hmap) ==
    IF hmap.older.tab[hmap.migrate_pos + 1] = <<>> THEN hmap
    ELSE hm_move_bucket(
             hm_move_node(hmap, h_detach(hmap.older,
                                         [pos |-> hmap.migrate_pos, i |-> 1])))

\* The iterations of the loop
\*   while (nwork < k_rehashing_work && older.size > 0)
\* that take the count of buckets moved from nwork to limit: an iteration
\* steps over an empty bucket or moves a bucket.  The run of iterations is
\* cut in two halves.
RECURSIVE hm_help_loop(_, _, _)
hm_help_loop(hmap, nwork, limit) ==
    IF nwork >= limit \/ hmap.older.size = 0 THEN hmap
    ELSE IF limit - nwork > 1
    THEN hm_help_loop(hm_help_loop(hmap, nwork, nwork + (limit - nwork) \div 2),
                      nwork + (limit - nwork) \div 2, limit)
    ELSE IF hmap.older.tab[hmap.migrate_pos + 1] # <<>>
    THEN hm_move_bucket(hmap)
    ELSE hm_move_bucket(
             [hmap EXCEPT !.migrate_pos =
                 CHOOSE p \in (@ + 1)..hmap.older.mask :
                     /\ hmap.older.tab[p + 1] # <<>>
                     /\ \A q \in (@ + 1)..(p - 1) : hmap.older.tab[q + 1] = <<>>])

\* The end of the help step: older is freed once it is empty.
hm_help_done(hmap) ==
    IF hmap.older.size = 0 /\ hmap.older.tab # <<>>
    THEN [hmap EXCEPT !.older = HTab0]
    ELSE hmap

hm_help_rehashing(hmap) ==
    hm_help_done(hm_help_loop(hmap, 0, k_rehashing_work))

hm_trigger_rehashing(hmap) ==
    [newer |-> h_init((hmap.newer.mask + 1) * 2),
     older |-> hmap.newer,
     migrate_pos |-> 0]

\* The load-factor test after the node went into newer.
hm_insert_grow(hmap) ==
    IF hmap.older.tab = <<>>
       /\ hmap.newer.size > (hmap.newer.mask + 1) * k_max_load_factor
    THEN hm_trigger_rehashing(hmap)
    ELSE hmap

\* The insert, once newer is initialized.
hm_insert_into(hmap, node) ==
    hm_help_rehashing(
        hm_insert_grow([hmap EXCEPT !.newer = h_insert(hmap.newer, node)]))

hm_insert(hmap, node) ==
    hm_insert_into(IF hmap.newer.tab = <<>>
                   THEN [hmap EXCEPT !.newer = h_init(k_init_cap)]
                   ELSE hmap,
                   node)

\* [hmap: the map after the help step, at: where the node is, or NULL],
\* from the addresses n and o found in newer and in older.
hm_found(hmap, n, o) ==
    [hmap |-> hmap,
     at |-> IF n # NULL THEN [t |-> "newer", pos |-> n.pos, i |-> n.i]
            ELSE IF o # NULL THEN [t |-> "older", pos |-> o.pos, i |-> o.i]
            ELSE NULL]

\* The lookup after the help step.
hm_lookup_in(hmap, key, eq) ==
    hm_found(hmap, h_lookup(hmap.newer, key, eq), h_lookup(hmap.older, key, eq))

hm_lookup(hmap, key, eq) == hm_lookup_in(hm_help_rehashing(hmap), key, eq)

hm_node(hmap, at) ==
    IF at.t = "newer" THEN hmap.newer.tab[at.pos + 1][at.i]
    ELSE hmap.older.tab[at.pos + 1][at.i]

\* [hmap, node]: the map without the node d = [htab, node] detached from
\* newer, or from older.
hm_delete_newer(hmap, d) ==
    [hmap |-> [hmap EXCEPT !.newer = d.htab], node |-> d.node]

hm_delete_older(hmap, d) ==
    [hmap |-> [hmap EXCEPT !.older = d.htab], node |-> d.node]

hm_delete_at(hmap, n, o) ==
    IF n # NULL THEN hm_delete_newer(hmap, h_detach(hmap.newer, n))
    ELSE IF o # NULL THEN hm_delete_older(hmap, h_detach(hmap.older, o))
    ELSE [hmap |-> hmap, node |-> NULL]

\* The delete after the help step.
hm_delete_in(hmap, key, eq) ==
    hm_delete_at(hmap, h_lookup(hmap.newer, key, eq),
                 h_lookup(hmap.older, key, eq))

\* [hmap, node: the detached node or NULL]
hm_delete(hmap, key, eq) == hm_delete_in(hm_help_rehashing(hmap), key, eq)

hm_size(hmap) == hmap.newer.size + hmap.older.size

\* The nodes of the chains of buckets lo..hi of a table, in order.
RECURSIVE chain_nodes(_, _, _)
chain_nodes(tab, lo, hi) ==
    IF lo > hi THEN <<>>
    ELSE IF lo = hi THEN tab[lo]
    ELSE chain_nodes(tab, lo, (lo + hi) \div 2)
         \o chain_nodes(tab, (lo + hi) \div 2 + 1, hi)

\* Every node reachable from the two tables, newer first.
hm_nodes(hmap) ==
    chain_nodes(hmap.newer.tab, 1, Len(hmap.newer.tab))
    \o chain_nodes(hmap.older.tab, 1, Len(hmap.older.tab))

----------------------------------------------------------------------------
(* The keyspace commands.  An Entry is [hcode, key, val]; each command     *)
(* returns the keyspace and the Response it leaves in `out`.               *)

STR_GET == << 103, 101, 116 >>

STR_SET == << 115, 101, 116 >>

STR_DEL == << 100, 101, 108 >>

do_get_found(val, out) == [out EXCEPT !.data = val]

\* The dummy Entry the commands look a key up with.
entry_key(k) == [hcode |-> str_hash(k), key |-> k, val |-> <<>>]

\* do_get after the lookup r = [hmap, at].
do_get_at(r, out) ==
    IF r.at = NULL
    THEN [db |-> r.hmap, out |-> [out EXCEPT !.status = RES_NX]]
    ELSE [db |-> r.hmap, out |-> do_get_found(hm_node(r.hmap, r.at).val, out)]

do_get(cmd, hmap, out) ==
    do_get_at(hm_lookup(hmap, entry_key(cmd[2]), "entry_eq"), out)

\* container_of(node, Entry, node)->val.swap(cmd[2])
entry_set_val(hmap, at, val) ==
    IF at.t = "newer"
    THEN [hmap EXCEPT !.newer.tab[at.pos + 1][at.i].val = val]
    ELSE [hmap EXCEPT !.older.tab[at.pos + 1][at.i].val = val]

\* A set that never looks the key up.
do_set_always_insert(cmd, hmap, out) ==
    [db |-> hm_insert(hmap, [hcode |-> str_hash(cmd[2]), key |-> cmd[2],
                             val |-> cmd[3]]),
     out |-> out]

\* do_set after the lookup r = [hmap, at].
do_set_at(r, cmd, out) ==
    IF r.at # NULL
    THEN [db |-> entry_set_val(r.hmap, r.at, cmd[3]), out |-> out]
    ELSE [db |-> hm_insert(r.hmap, [hcode |-> str_hash(cmd[2]), key |-> cmd[2],
                                    val |-> cmd[3]]),
          out |-> out]

do_set(cmd, hmap, out) ==
    do_set_at(hm_lookup(hmap, entry_key(cmd[2]), "entry_eq"), cmd, out)

\* do_del after the delete r = [hmap, node].
do_del_at(r, out) == [db |-> r.hmap, out |-> out]

do_del(cmd, hmap, out) ==
    do_del_at(hm_delete(hmap, entry_key(cmd[2]), "entry_eq"), out)

\* A dispatcher that leaves the status alone when it rejects a command.
do_request_no_err(cmd, hmap, out) ==
    IF Len(cmd) = 2 /\ cmd[1] = STR_GET THEN do_get(cmd, hmap, out)
    ELSE IF Len(cmd) = 3 /\ cmd[1] = STR_SET THEN do_set(cmd, hmap, out)
    ELSE IF Len(cmd) = 2 /\ cmd[1] = STR_DEL THEN do_del(cmd, hmap, out)
    ELSE [db |-> hmap, out |-> out]

do_request(cmd, hmap, out) ==
    IF Len(cmd) = 2 /\ cmd[1] = STR_GET THEN do_get(cmd, hmap, out)
    ELSE IF Len(cmd) = 3 /\ cmd[1] = STR_SET THEN do_set(cmd, hmap, out)
    ELSE IF Len(cmd) = 2 /\ cmd[1] = STR_DEL THEN do_del(cmd, hmap, out)
    ELSE [db |-> hmap, out |-> [out EXCEPT !.status = RES_ERR]]

----------------------------------------------------------------------------
(* The framer: one request out of conn->incoming, if there is enough data. *)
(* The result carries what the call did: ret (its return value), the Conn  *)
(* and the keyspace after it, and, when a request was executed, the        *)
(* command and its Response.                                               *)

Conn0 == [fd |-> -1, want_read |-> FALSE, want_write |-> FALSE,
          want_close |-> FALSE, incoming |-> <<>>, outgoing |-> <<>>]

\* Emptying the buffer instead of removing one message from its front.
try_consume_clear(incoming, len) == <<>>

try_consume(incoming, len) == buf_consume(incoming, 4 + len)

\* Dropping the bytes buffered so far when the request is not whole yet.
want_more_drop(conn, hmap) ==
    [ret |-> FALSE, conn |-> [conn EXCEPT !.incoming = <<>>], db |-> hmap,
     cmd |-> NULL, resp |-> NULL]

\* return false;  // want read
want_more(conn, hmap) ==
    [ret |-> FALSE, conn |-> conn, db |-> hmap, cmd |-> NULL, resp |-> NULL]

\* Setting want_close and going on with the loop.
proto_error_go_on(conn, hmap) ==
    [ret |-> TRUE, conn |-> [conn EXCEPT !.want_close = TRUE], db |-> hmap,
     cmd |-> NULL, resp |-> NULL]

\* conn->want_close = true; return false;  // want close
proto_error(conn, hmap) ==
    [ret |-> FALSE, conn |-> [conn EXCEPT !.want_close = TRUE], db |-> hmap,
     cmd |-> NULL, resp |-> NULL]

\* make_response, buf_consume, return true: r = [db, out] is what
\* do_request did.
try_respond(conn, len, cmd, r) ==
    [ret  |-> TRUE,
     conn |-> [conn EXCEPT !.outgoing = make_response(r.out, conn.outgoing),
                           !.incoming = try_consume(conn.incoming, len)],
     db   |-> r.db,
     cmd  |-> cmd,
     resp |-> r.out]

\* After parse_req: req = [rc, out].
try_execute(conn, hmap, len, req) ==
    IF req.rc < 0 THEN proto_error(conn, hmap)
    ELSE try_respond(conn, len, req.out, do_request(req.out, hmap, Response))

\* After the length prefix len has been read.
try_with_len(conn, hmap, len) ==
    IF len > k_max_msg THEN proto_error(conn, hmap)
    ELSE IF 4 + len > Len(conn.incoming) THEN want_more(conn, hmap)
    ELSE try_execute(conn, hmap, len,
                     parse_req(SubSeq(conn.incoming, 5, 4 + len)))

try_one_request(conn, hmap) ==
    IF Len(conn.incoming) < 4 THEN want_more(conn, hmap)
    ELSE try_with_len(conn, hmap, u32_decode(SubSeq(conn.incoming, 1, 4)))

----------------------------------------------------------------------------
(* System-call outcomes.  rv is the return value; errno matters when       *)
(* rv < 0.                                                                 *)

EAGAIN == "EAGAIN"

EIO == "EIO"

NoIO == [op |-> "none", rv |-> 0, errno |-> ""]

\* What a step keeps of its system call: the call, the sign of its return
\* value and errno.
Sgn(n) == IF n > 0 THEN 1 ELSE IF n < 0 THEN -1 ELSE 0

IoOf(o) == [op |-> o.op, rv |-> Sgn(o.rv), errno |-> o.errno]

\* What write(fd, outgoing, n) may return on socket s: the whole count, any
\* smaller positive count when the send buffer is short of room, EAGAIN when
\* it is full, or a hard error.
WriteOutcomes(s, conn) ==
    {[op |-> "write", rv |-> n, errno |-> ""] :
        n \in (IF s.partial THEN 1..Len(conn.outgoing) ELSE {Len(conn.outgoing)})}
    \cup {[op |-> "write", rv |-> -1, errno |-> e] : e \in {EAGAIN, EIO}}

\* The byte counts at which the stream of socket s may be cut: anywhere
\* ("bytes"), between two frames of the client ("frames"), or only at the
\* end of what the client sent ("whole").
RECURSIVE frame_ends(_, _)
frame_ends(script, at) ==
    IF script = <<>> THEN {}
    ELSE {at + Len(Head(script))}
         \cup frame_ends(Tail(script), at + Len(Head(script)))

ReadSizes(s) ==
    LET total == Len(Flatten(s.script))
        done  == total - Len(s.inb)
    IN  {n \in 1..Min(Len(s.inb), ReadBufSize) :
            \/ s.split = "bytes"
            \/ s.split = "frames" /\ done + n \in frame_ends(s.script, 0)
            \/ n = Min(Len(s.inb), ReadBufSize)}

\* What read(fd, buf, sizeof(buf)) may return on socket s: a non-empty prefix
\* of the bytes received, end of file once the peer has closed and all is
\* read, EAGAIN when nothing is there, or a hard error.
ReadOutcomes(s) ==
    {[op |-> "read", rv |-> n, errno |-> ""] : n \in ReadSizes(s)}
    \cup (IF s.inb = <<>> /\ s.peer_closed
          THEN {[op |-> "read", rv |-> 0, errno |-> ""]} ELSE {})
    \cup (IF s.inb = <<>> /\ ~s.peer_closed
          THEN {[op |-> "read", rv |-> -1, errno |-> EAGAIN]} ELSE {})
    \cup {[op |-> "read", rv |-> -1, errno |-> EIO]}

\* A handle_write that never hands the connection back to reading.
handle_write_no_flip(conn, w) ==
    IF w.rv < 0 /\ w.errno = EAGAIN THEN conn
    ELSE IF w.rv < 0 THEN [conn EXCEPT !.want_close = TRUE]
    ELSE [conn EXCEPT !.outgoing = buf_consume(conn.outgoing, w.rv)]

\* handle_write after its assertion, given the outcome w of write().
handle_write(conn, w) ==
    IF w.rv < 0 /\ w.errno = EAGAIN THEN conn
    ELSE IF w.rv < 0 THEN [conn EXCEPT !.want_close = TRUE]
    ELSE LET out == buf_consume(conn.outgoing, w.rv) IN
         IF Len(out) = 0
         THEN [conn EXCEPT !.outgoing = out, !.want_read = TRUE,
                           !.want_write = FALSE]
         ELSE [conn EXCEPT !.outgoing = out]

\* The bytes a write outcome puts on the wire.
Written(conn, w) == IF w.rv > 0 THEN SubSeq(conn.outgoing, 1, w.rv) ELSE <<>>

\* A handle_read that takes end of file for "nothing to read yet".
handle_read_io_eof_ignored(conn, r, data) ==
    IF r.rv < 0 /\ r.errno = EAGAIN THEN conn
    ELSE IF r.rv < 0 THEN [conn EXCEPT !.want_close = TRUE]
    ELSE IF r.rv = 0 THEN conn
    ELSE [conn EXCEPT !.incoming = buf_append(conn.incoming, data)]

\* handle_read up to the framer loop, given the outcome r of read() and the
\* bytes it delivered.
handle_read_io(conn, r, data) ==
    IF r.rv < 0 /\ r.errno = EAGAIN THEN conn
    ELSE IF r.rv < 0 THEN [conn EXCEPT !.want_close = TRUE]
    ELSE IF r.rv = 0 THEN [conn EXCEPT !.want_close = TRUE]
    ELSE [conn EXCEPT !.incoming = buf_append(conn.incoming, data)]

\* handle_read after the framer loop: the readiness intention.
handle_read_intent(conn) ==
    IF Len(conn.outgoing) > 0
    THEN [conn EXCEPT !.want_read = FALSE, !.want_write = TRUE]
    ELSE conn

----------------------------------------------------------------------------
(* The kernel and the clients.  A client is [script, split, partial]: the   *)
(* frames it sends, how its stream is cut on the way to the server, and    *)
(* whether its socket's send buffer may run short.  A socket is the client *)
(* with inb, peer_closed and wire: the bytes received and not yet read,    *)
(* whether the peer has shut its end, and the bytes the server has         *)
(* written.  A client writes its whole script when it connects; the stream *)
(* reaches the server in the pieces read() returns.                        *)

POLLIN == "POLLIN"

POLLOUT == "POLLOUT"

POLLERR == "POLLERR"

ListenFd == 3

FnPut(f, k, v) == [x \in DOMAIN f \cup {k} |-> IF x = k THEN v ELSE f[x]]

FnDel(f, k) == [x \in DOMAIN f \ {k} |-> f[x]]

\* accept() returns the lowest descriptor not in use (0..2 and the listener are).
LowestFreeFdOf(open) ==
    CHOOSE f \in (ListenFd + 1)..(ListenFd + 1 + Cardinality(DOMAIN open)) :
        /\ f \notin DOMAIN open
        /\ \A g \in (ListenFd + 1)..(f - 1) : g \in DOMAIN open

LowestFreeFd == LowestFreeFdOf(socks)

Sock0(client) == [inb |-> Flatten(client.script), peer_closed |-> FALSE,
                  wire |-> <<>>, script |-> client.script,
                  split |-> client.split, partial |-> client.partial]

Conns == {f \in DOMAIN fd2conn : fd2conn[f] # NULL}

\* The fd of the poll entry being handled, and its revents.
CurFd == poll_args[idx].fd

Ready == poll_args[idx].revents

Running == aborted = "no"

Wake0 == [pending |-> 0, ids |-> <<>>]

----------------------------------------------------------------------------
(* The event loop of main, one action per step of an iteration.            *)

\* for (Conn *conn : fd2conn): the pollfd of every registered Conn, by index.
RECURSIVE conn_pollfds(_)
conn_pollfds(i) ==
    IF i \notin DOMAIN fd2conn THEN <<>>
    ELSE IF fd2conn[i] = NULL THEN conn_pollfds(i + 1)
    ELSE << [fd |-> fd2conn[i].fd,
             events |-> {POLLERR}
                        \cup (IF fd2conn[i].want_read THEN {POLLIN} ELSE {})
                        \cup (IF fd2conn[i].want_write THEN {POLLOUT} ELSE {}),
             revents |-> {}] >> \o conn_pollfds(i + 1)

build_poll_args ==
    << [fd |-> ListenFd, events |-> {POLLIN}, revents |-> {}] >> \o conn_pollfds(0)

\* The readiness the kernel may report for one entry: what is ready is
\* reported, an error may be pending on any socket, and a socket may be
\* reported ready although the call that follows finds nothing to do.
Revents(p) ==
    IF p.fd = ListenFd
    THEN IF backlog # <<>> THEN {{POLLIN}} ELSE {{}}
    ELSE LET s  == socks[p.fd]
             in == IF POLLIN \notin p.events THEN {{}}
                   ELSE IF s.inb # <<>> \/ s.peer_closed THEN {{POLLIN}}
                   ELSE {{}, {POLLIN}}
             ou == IF POLLOUT \in p.events THEN {{}, {POLLOUT}} ELSE {{}}
         IN  {a \cup b \cup c : a \in in, b \in ou, c \in {{}, {POLLERR}}}

RECURSIVE AllRevents(_)
AllRevents(args) ==
    IF args = <<>> THEN {<<>>}
    ELSE {<<[Head(args) EXCEPT !.revents = r]>> \o rest :
             r \in Revents(Head(args)), rest \in AllRevents(Tail(args))}

\* Top of the loop: build poll_args and wait (no timeout) until something
\* is reported.
Poll ==
    /\ Running /\ pc = "poll"
    /\ \E args \in AllRevents(build_poll_args) :
         /\ \E i \in 1..Len(args) : args[i].revents # {}
         /\ poll_args' = args
    /\ wake' = [pending |-> Len(backlog),
                ids |-> [i \in 1..Len(poll_args') |->
                           IF i = 1 THEN 0 ELSE hist.c[poll_args'[i].fd].id]]
    /\ pc' = "listener"
    /\ UNCHANGED <<db, fd2conn, idx, socks, backlog, waiting, io, aborted, hist>>
    /\ UNCHANGED <<zs, zcall, pool, thread, jobs,
                   htable, dl, ttl, basic>>

\* handle_accept: one accept() call; NULL when it fails.
AcceptOutcomes ==
    IF backlog # <<>>
    THEN {[op |-> "accept", rv |-> LowestFreeFd, errno |-> ""],
          [op |-> "accept", rv |-> -1, errno |-> "EMFILE"]}
    ELSE {[op |-> "accept", rv |-> -1, errno |-> EAGAIN]}

\* A new Conn that asks for writability.
handle_accept_want_write(a) ==
    IF a.rv < 0 THEN NULL
    ELSE [Conn0 EXCEPT !.fd = a.rv, !.want_write = TRUE]

handle_accept(a) ==
    IF a.rv < 0 THEN NULL
    ELSE [Conn0 EXCEPT !.fd = a.rv, !.want_read = TRUE]

\* fd2conn.resize(conn->fd + 1) when the vector is too short
fd2conn_resize(v, fd) ==
    IF Cardinality(DOMAIN v) <= fd
    THEN [i \in 0..fd |-> IF i \in DOMAIN v THEN v[i] ELSE NULL]
    ELSE v

\* The part of the state the listener step works on.
ListenerState == [fd2conn |-> fd2conn, socks |-> socks, backlog |-> backlog,
                  hist |-> hist, wake |-> wake, aborted |-> aborted]

\* One handle_accept call and the registration of its result:
\*   if (Conn *conn = handle_accept(fd)) { resize; assert; fd2conn[fd] = conn; }
\* A successful accept() takes the oldest pending connection off the queue.
accept_round(st, a) ==
    LET conn == handle_accept(a) IN
    IF conn = NULL THEN st
    ELSE LET v == fd2conn_resize(st.fd2conn, conn.fd) IN
         [fd2conn |-> IF v[conn.fd] # NULL THEN v
                      ELSE [v EXCEPT ![conn.fd] = conn],
          socks |-> FnPut(st.socks, conn.fd, Sock0(Head(st.backlog))),
          backlog |-> Tail(st.backlog),
          hist |-> [c |-> FnPut(st.hist.c, conn.fd,
                                [log |-> <<>>, gen |-> <<>>,
                                 id |-> st.hist.nacc + 1]),
                    nacc |-> st.hist.nacc + 1],
          wake |-> [st.wake EXCEPT !.pending = @ - 1],
          aborted |-> IF v[conn.fd] # NULL
                      THEN "assert(!fd2conn[conn->fd])" ELSE st.aborted]

\* A listener that keeps accepting until the queue is empty.
RECURSIVE listener_ready_drain(_, _)
listener_ready_drain(st, a) ==
    LET st1 == accept_round(st, a) IN
    IF a.rv < 0 \/ st1.backlog = <<>> \/ st1.aborted # "no" THEN st1
    ELSE listener_ready_drain(st1, [a EXCEPT !.rv = LowestFreeFdOf(st1.socks)])

\* if (poll_args[0].revents) { ... }: the body runs handle_accept once.
listener_ready(st, a) == accept_round(st, a)

\* The listener step of an iteration.
Listener ==
    /\ Running /\ pc = "listener"
    /\ IF poll_args[1].revents # {}
       THEN \E a \in AcceptOutcomes :
              LET st == listener_ready(ListenerState, a) IN
              /\ io' = IoOf(a)
              /\ fd2conn' = st.fd2conn
              /\ socks' = st.socks
              /\ backlog' = st.backlog
              /\ hist' = st.hist
              /\ wake' = st.wake
              /\ aborted' = st.aborted
       ELSE /\ io' = NoIO
            /\ UNCHANGED <<fd2conn, socks, backlog, aborted, hist, wake>>
    /\ pc' = "conns" /\ idx' = 2
    /\ UNCHANGED <<db, poll_args, waiting>>
    /\ UNCHANGED <<zs, zcall, pool, thread, jobs,
                   htable, dl, ttl, basic>>

\* for (i = 1; i < poll_args.size(); ++i): the loop test, and the entries
\* with no event.
ConnNext ==
    /\ Running /\ pc = "conns"
    /\ IF idx > Len(poll_args)
       THEN /\ pc' = "poll" /\ idx' = 0
            /\ poll_args' = <<>>     \* poll_args.clear() at the top of the loop
            /\ wake' = Wake0
            /\ UNCHANGED aborted
       ELSE IF Ready = {}
       THEN idx' = idx + 1 /\ UNCHANGED <<pc, aborted, poll_args, wake>>
       ELSE IF CurFd \notin DOMAIN fd2conn \/ fd2conn[CurFd] = NULL
       THEN aborted' = "null Conn" /\ UNCHANGED <<pc, idx, poll_args, wake>>
       ELSE pc' = "read" /\ UNCHANGED <<idx, aborted, poll_args, wake>>
    /\ io' = NoIO
    /\ UNCHANGED <<db, fd2conn, socks, backlog, waiting, hist>>
    /\ UNCHANGED <<zs, zcall, pool, thread, jobs,
                   htable, dl, ttl, basic>>

\* if (ready & POLLIN): handle_read up to the framer loop.
Read ==
    /\ Running /\ pc = "read"
    /\ IF POLLIN \in Ready
       THEN IF ~fd2conn[CurFd].want_read
            THEN /\ aborted' = "assert(conn->want_read)"
                 /\ UNCHANGED <<fd2conn, socks, io, pc>>
            ELSE \E r \in ReadOutcomes(socks[CurFd]) :
                   LET data == Take(socks[CurFd].inb, r.rv) IN
                   /\ io' = IoOf(r)
                   /\ fd2conn' = [fd2conn EXCEPT
                                    ![CurFd] = handle_read_io(@, r, data)]
                   /\ socks' = [socks EXCEPT ![CurFd].inb = Drop(@, r.rv)]
                   /\ pc' = IF r.rv > 0 THEN "framer" ELSE "write"
                   /\ UNCHANGED aborted
       ELSE pc' = "write" /\ io' = NoIO /\ UNCHANGED <<fd2conn, socks, aborted>>
    /\ UNCHANGED <<db, poll_args, idx, backlog, waiting, wake, hist>>
    /\ UNCHANGED <<zs, zcall, pool, thread, jobs,
                   htable, dl, ttl, basic>>

\* What one call r = [ret, conn, db, cmd, resp] leaves behind.
FramerApply(conn, r) ==
    /\ fd2conn' = [fd2conn EXCEPT ![CurFd] = r.conn]
    /\ db' = r.db
    /\ pc' = IF r.ret THEN "framer" ELSE "read_end"
    /\ hist' = IF r.ret
               THEN [hist EXCEPT
                       !.c[CurFd].log = Append(@, [cmd |-> r.cmd,
                                                   resp |-> r.resp]),
                       !.c[CurFd].gen =
                           @ \o Drop(r.conn.outgoing, Len(conn.outgoing))]
               ELSE hist

\* while (try_one_request(conn)) {}: one call per step.
Framer ==
    /\ Running /\ pc = "framer"
    /\ FramerApply(fd2conn[CurFd], try_one_request(fd2conn[CurFd], db))
    /\ io' = NoIO
    /\ UNCHANGED <<poll_args, idx, socks, backlog, waiting, aborted, wake>>
    /\ UNCHANGED <<zs, zcall, pool, thread, jobs,
                   htable, dl, ttl, basic>>

\* The end of handle_read: the readiness intention, and the write it tries
\* without waiting for the next iteration.
ReadEnd ==
    /\ Running /\ pc = "read_end"
    /\ LET conn == handle_read_intent(fd2conn[CurFd]) IN
       IF Len(conn.outgoing) > 0
       THEN \E w \in WriteOutcomes(socks[CurFd], conn) :
              /\ io' = IoOf(w)
              /\ fd2conn' = [fd2conn EXCEPT ![CurFd] = handle_write(conn, w)]
              /\ socks' = [socks EXCEPT ![CurFd].wire = @ \o Written(conn, w)]
       ELSE io' = NoIO /\ UNCHANGED <<fd2conn, socks>>
    /\ pc' = "write"
    /\ UNCHANGED <<db, poll_args, idx, backlog, waiting, aborted, wake, hist>>
    /\ UNCHANGED <<zs, zcall, pool, thread, jobs,
                   htable, dl, ttl, basic>>

\* if (ready & POLLOUT): handle_write.
Write ==
    /\ Running /\ pc = "write"
    /\ IF POLLOUT \in Ready
       THEN LET conn == fd2conn[CurFd] IN
            IF ~conn.want_write
            THEN /\ aborted' = "assert(conn->want_write)"
                 /\ UNCHANGED <<fd2conn, socks, io, pc>>
            ELSE IF Len(conn.outgoing) = 0
            THEN /\ aborted' = "assert(conn->outgoing.size() > 0)"
                 /\ UNCHANGED <<fd2conn, socks, io, pc>>
            ELSE \E w \in WriteOutcomes(socks[CurFd], conn) :
                   /\ io' = IoOf(w)
                   /\ fd2conn' = [fd2conn EXCEPT ![CurFd] = handle_write(conn, w)]
                   /\ socks' = [socks EXCEPT ![CurFd].wire = @ \o Written(conn, w)]
                   /\ pc' = "close"
                   /\ UNCHANGED aborted
       ELSE pc' = "close" /\ io' = NoIO /\ UNCHANGED <<fd2conn, socks, aborted>>
    /\ UNCHANGED <<db, poll_args, idx, backlog, waiting, wake, hist>>
    /\ UNCHANGED <<zs, zcall, pool, thread, jobs,
                   htable, dl, ttl, basic>>

\* Closing on the error event alone.
must_close_err_only(ready, conn) == POLLERR \in ready

\* if ((ready & POLLERR) || conn->want_close): close, clear the slot, delete.
must_close(ready, conn) == POLLERR \in ready \/ conn.want_close

Close ==
    /\ Running /\ pc = "close"
    /\ IF must_close(Ready, fd2conn[CurFd])
       THEN /\ socks' = FnDel(socks, CurFd)
            /\ fd2conn' = [fd2conn EXCEPT ![CurFd] = NULL]
            /\ hist' = [hist EXCEPT !.c = FnDel(@, CurFd)]
       ELSE UNCHANGED <<socks, fd2conn, hist>>
    /\ idx' = idx + 1
    /\ pc' = "conns"
    /\ io' = NoIO
    /\ UNCHANGED <<db, poll_args, backlog, waiting, aborted, wake>>
    /\ UNCHANGED <<zs, zcall, pool, thread, jobs,
                   htable, dl, ttl, basic>>

----------------------------------------------------------------------------
(* The clients.                                                            *)

\* The next client connects: its connection waits in the listen queue.
Connect ==
    /\ waiting # <<>>
    /\ backlog' = Append(backlog, Head(waiting))
    /\ waiting' = Tail(waiting)
    /\ UNCHANGED <<db, fd2conn, poll_args, pc, idx, socks, io, aborted, wake, hist>>
    /\ UNCHANGED <<zs, zcall, pool, thread, jobs,
                   htable, dl, ttl, basic>>

\* A client shuts its end of the connection.  What it sent before is read
\* first, so the step is taken once that has been read.
PeerClose ==
    /\ \E f \in DOMAIN socks :
         /\ ~socks[f].peer_closed
         /\ socks[f].inb = <<>>
         /\ socks' = [socks EXCEPT ![f].peer_closed = TRUE]
    /\ UNCHANGED <<db, fd2conn, poll_args, pc, idx, backlog, waiting, io,
                   aborted, wake, hist>>
    /\ UNCHANGED <<zs, zcall, pool, thread, jobs,
                   htable, dl, ttl, basic>>

Next ==
    \/ Poll \/ Listener \/ ConnNext \/ Read \/ Framer \/ ReadEnd \/ Write
    \/ Close \/ Connect \/ PeerClose

----------------------------------------------------------------------------
(* The AVL tree with subtree sizes.  A node is a record of the heap with   *)
(* the fields left, right, parent (node addresses or NULL), height and     *)
(* cnt; an operation takes the heap h and gives the heap back, with the    *)
(* node it returns where it returns one.                                   *)

avl_init(h, n) ==
    [h EXCEPT ![n].left = NULL, ![n].right = NULL, ![n].parent = NULL,
              ![n].height = 1, ![n].cnt = 1]

\* fix(node) -> new_root: from n up to the root, height and cnt recomputed
\* and the node rebalanced at each level.  [h, n: the root]
RECURSIVE avl_fix(_, _)
avl_fix(h, n) ==
    LET get(g, m, f) == IF m = NULL THEN 0 ELSE g[m][f]
        update(g, m) ==
            [g EXCEPT ![m].height = 1 + Max(get(g, g[m].left, "height"),
                                            get(g, g[m].right, "height")),
                      ![m].cnt = 1 + get(g, g[m].left, "cnt")
                                   + get(g, g[m].right, "cnt")]
        other(d) == IF d = "left" THEN "right" ELSE "left"
        set_parent(g, m, p) == IF m = NULL THEN g ELSE [g EXCEPT ![m].parent = p]
        \* Rotates m towards d: its child c on the other side takes its
        \* place and its parent, m becomes c's child on side d.
        rot(g, m, d, c) ==
            update(update(set_parent([g EXCEPT ![m][other(d)] = g[c][d],
                                               ![m].parent = c,
                                               ![c].parent = g[m].parent,
                                               ![c][d] = m],
                                     g[c][d], m),
                          m),
                   c)
        \* m is two higher on side d, where c is: a double rotation when
        \* c's inner child i is the higher one, else the single one.
        fix_side(g, m, d, c, i) ==
            IF get(g, g[c][d], "height") < get(g, i, "height")
            THEN [h |-> rot([rot(g, c, d, i) EXCEPT ![m][d] = i], m, other(d), i),
                  n |-> i]
            ELSE [h |-> rot(g, m, other(d), c), n |-> c]
        balance(g, m) ==
            IF get(g, g[m].left, "height") = get(g, g[m].right, "height") + 2
            THEN fix_side(g, m, "left", g[m].left, g[g[m].left].right)
            ELSE IF get(g, g[m].left, "height") + 2 = get(g, g[m].right, "height")
            THEN fix_side(g, m, "right", g[m].right, g[g[m].right].left)
            ELSE [h |-> g, n |-> m]
        \* The parent's link is set to the subtree's root b.n; then upward.
        up(b, parent) ==
            IF parent = NULL THEN b
            ELSE IF b.h[parent].left = n
            THEN avl_fix([b.h EXCEPT ![parent].left = b.n], parent)
            ELSE avl_fix([b.h EXCEPT ![parent].right = b.n], parent)
    IN  up(balance(update(h, n), n), h[n].parent)

\* del(node) -> new_root: a node with at most one child is unlinked and its
\* parent fixed; else its successor is unlinked and relinked in its place.
\* The node keeps the links it had.  [h, n: the root]
avl_del(h, n) ==
    LET set_parent(g, m, p) == IF m = NULL THEN g ELSE [g EXCEPT ![m].parent = p]
        relink(g, parent, old, new) ==
            IF parent = NULL THEN g
            ELSE IF g[parent].left = old THEN [g EXCEPT ![parent].left = new]
            ELSE [g EXCEPT ![parent].right = new]
        easy(m, child) ==
            IF h[m].parent = NULL
            THEN [h |-> set_parent(h, child, NULL), n |-> child]
            ELSE avl_fix(relink(set_parent(h, child, h[m].parent),
                                h[m].parent, m, child),
                         h[m].parent)
        RECURSIVE leftmost(_)
        leftmost(m) == IF h[m].left = NULL THEN m ELSE leftmost(h[m].left)
        \* The successor v, unlinked (d = [h, n: root]), takes n's links.
        swap(d, v) ==
            [h |-> relink(set_parent(set_parent(
                              [d.h EXCEPT ![v].left = d.h[n].left,
                                          ![v].right = d.h[n].right,
                                          ![v].parent = d.h[n].parent,
                                          ![v].height = d.h[n].height,
                                          ![v].cnt = d.h[n].cnt],
                              d.h[n].left, v), d.h[n].right, v),
                          d.h[n].parent, n, v),
             n |-> IF d.h[n].parent = NULL THEN v ELSE d.n]
    IN  IF h[n].left = NULL
        THEN easy(n, h[n].right)
        ELSE IF h[n].right = NULL
        THEN easy(n, h[n].left)
        ELSE swap(easy(leftmost(h[n].right), h[leftmost(h[n].right)].right),
                  leftmost(h[n].right))

\* offset(node, k) -> node?: pos is the rank of m relative to n's.
avl_offset(h, n, offset) ==
    LET cnt(m) == IF m = NULL THEN 0 ELSE h[m].cnt
        RECURSIVE from(_, _)
        from(m, pos) ==
            IF pos = offset THEN m
            ELSE IF pos < offset /\ pos + cnt(h[m].right) >= offset
            THEN from(h[m].right, pos + cnt(h[h[m].right].left) + 1)
            ELSE IF pos > offset /\ pos - cnt(h[m].left) <= offset
            THEN from(h[m].left, pos - cnt(h[h[m].left].right) - 1)
            ELSE IF h[m].parent = NULL THEN NULL
            ELSE IF h[h[m].parent].right = m
            THEN from(h[m].parent, pos - cnt(h[m].left) - 1)
            ELSE from(h[m].parent, pos + cnt(h[m].right) + 1)
    IN  from(n, 0)

----------------------------------------------------------------------------
(* The sorted set of src/RedisMain/zset.cpp.  A ZSet is [hmap, root,       *)
(* heap]: heap maps the address of every allocated ZNode to its fields     *)
(* (hcode, name, score and the AVL links); the hmap holds the nodes'       *)
(* hnodes as [hcode, name, id], id being the address of the ZNode.  An     *)
(* address is [znode |-> i].  Scores are integers.                         *)

\* offsetof(ZNode, anode): anode follows hnode, a pointer and a uint64_t.
offsetof_anode == 16

\* reinterpret_cast<char*>(ptr) - offset, as the set of what it may give.
\* A member and its ZNode are one address of the heap.  On a null ptr the
\* subtraction is undefined: builds give the address -offset, which is not
\* null and is no node, and nothing forbids null.
container_of_func(ptr, offset) ==
    IF ptr # NULL THEN {ptr}
    ELSE IF offset = 0 THEN {NULL}
    ELSE {NULL, [wild |-> 0 - offset]}

\* +1, -1 or 0, the sign of what znode_cmp returns.
znode_cmp(a, b) ==
    IF a.score # b.score THEN (IF a.score < b.score THEN -1 ELSE 1)
    ELSE memcmp(a.name, b.name,
                IF Len(a.name) < Len(b.name) THEN Len(a.name) ELSE Len(b.name))

\* zset_insert without the lookup: every call makes a node.
zset_insert_no_lookup(zset, name, score) ==
    LET n == CHOOSE n \in {[znode |-> i] :
                              i \in 1..(Cardinality(DOMAIN zset.heap) + 1)} :
                 n \notin DOMAIN zset.heap
        f == avl_fix(avl_init((n :> [hcode |-> str_hash(name), name |-> name,
                                     score |-> score, left |-> NULL,
                                     right |-> NULL, parent |-> NULL,
                                     height |-> 0, cnt |-> 0])
                              @@ zset.heap, n), n)
    IN  [zset |-> [hmap |-> hm_insert(zset.hmap, [hcode |-> str_hash(name),
                                                  name |-> name, id |-> n]),
                   heap |-> f.h, root |-> f.n],
         ret |-> TRUE]

\* [zset, ret]
zset_insert(zset, name, score) ==
    LET key == [hcode |-> str_hash(name), name |-> name]
        \* The member n was found: nothing to do, or a new score; d is
        \* what avl_del returned.
        rescore(z, d, n) ==
            [zset |-> [z EXCEPT
                         !.heap = avl_fix([d.h EXCEPT ![n].score = score], n).h,
                         !.root = avl_fix([d.h EXCEPT ![n].score = score], n).n],
             ret |-> FALSE]
        update(z, n) ==
            IF z.heap[n].score = score THEN [zset |-> z, ret |-> FALSE]
            ELSE rescore(z, avl_del(z.heap, n), n)
        \* new ZNode() returns an address not in use; the lowest.
        new_ZNode ==
            CHOOSE n \in {[znode |-> i] :
                             i \in 1..(Cardinality(DOMAIN zset.heap) + 1)} :
                n \notin DOMAIN zset.heap
        znode(n) ==
            n :> [hcode |-> key.hcode, name |-> name, score |-> score,
                  left |-> NULL, right |-> NULL, parent |-> NULL,
                  height |-> 0, cnt |-> 0]
        \* f is what avl_fix returned.
        linked(z, n, f) ==
            [zset |-> [hmap |-> hm_insert(z.hmap, [hcode |-> key.hcode,
                                                   name |-> name, id |-> n]),
                       heap |-> f.h, root |-> f.n],
             ret |-> TRUE]
        new(z, n) == linked(z, n, avl_fix(avl_init(znode(n) @@ z.heap, n), n))
        \* found = [hmap, at], what hm_lookup returned.
        at(found) ==
            IF found.at # NULL
            THEN update([zset EXCEPT !.hmap = found.hmap],
                        hm_node(found.hmap, found.at).id)
            ELSE new([zset EXCEPT !.hmap = found.hmap], new_ZNode)
    IN  at(hm_lookup(zset.hmap, key, "znode_eq"))

\* The node is unlinked, taken out of the hmap and freed.
zset_delete(zset, znode) ==
    [hmap |-> hm_delete(zset.hmap, zset.heap[znode], "znode_eq").hmap,
     root |-> avl_del(zset.heap, znode).n,
     heap |-> [n \in DOMAIN zset.heap \ {znode} |->
                 avl_del(zset.heap, znode).h[n]]]

\* while (zset->root) { avl_del, hm_delete, free, delete }; hm_clear, which
\* frees the two tables and leaves the HMap zero-sized.  The body of the
\* loop is what zset_delete does to the node of the root.  [zset: the set
\* after the call, its heap the nodes still allocated; freed: the nodes
\* released, in order]
zset_clear(zset) ==
    LET RECURSIVE loop(_, _)
        loop(z, freed) ==
            IF z.root = NULL
            THEN [zset |-> [z EXCEPT !.hmap = HMap0], freed |-> freed]
            ELSE loop(zset_delete(z, z.root), Append(freed, z.root))
    IN  loop(zset, <<>>)

\* [hmap: after the lookup's rehashing step, node: the ZNode or NULL]
zset_lookup(zset, name) ==
    LET node(found) ==
            [hmap |-> found.hmap,
             node |-> IF found.at = NULL THEN NULL
                      ELSE hm_node(found.hmap, found.at).id]
    IN  node(hm_lookup(zset.hmap, [hcode |-> str_hash(name), name |-> name],
                       "znode_eq"))

zset_seekge(zset, score, name) ==
    LET tmp == [score |-> score, name |-> name]
        RECURSIVE seek(_, _)
        seek(cur, best) ==
            IF cur = NULL THEN best
            ELSE IF znode_cmp(zset.heap[cur], tmp) = 0 THEN cur
            ELSE IF znode_cmp(zset.heap[cur], tmp) < 0
            THEN seek(zset.heap[cur].right, best)
            ELSE seek(zset.heap[cur].left, cur)
    IN  seek(zset.root, NULL)

\* What the call may return.
znode_offset(zset, znode, offset) ==
    IF znode # NULL
    THEN container_of_func(avl_offset(zset.heap, znode, offset), offsetof_anode)
    ELSE {NULL}

----------------------------------------------------------------------------
(* The calls a command handler makes on the sorted set.  zcall keeps the   *)
(* last call with what it returned, the nodes a range query has walked,    *)
(* the number of calls that changed the set and what these calls make the  *)
(* set: members, name -> score.                                            *)

ZCall0 ==
    [op |-> "none", name |-> <<>>, score |-> 0, offset |-> 0, node |-> NULL,
     ret |-> NULL, walk |-> <<>>, members |-> <<>>, n |-> 0]

\* The names: the empty name, a name, a name it is a prefix of, another.
ZNames == {<<>>, <<97>>, <<97, 98>>, <<98>>}

ZScores == {1, 2}

\* The calls that change the set, and the offsets asked for.
MaxZCalls == 3

MaxOffset == 1

NextZSet ==
    \* zset_insert
    \/ /\ zcall.n < MaxZCalls
       /\ \E name \in ZNames, score \in ZScores :
            /\ zs' = zset_insert(zs, name, score).zset
            /\ zcall' = [ZCall0 EXCEPT
                           !.op = "insert", !.name = name, !.score = score,
                           !.ret = zset_insert(zs, name, score).ret,
                           !.members = (name :> score) @@ zcall.members,
                           !.n = zcall.n + 1]
       /\ UNCHANGED <<db, fd2conn, poll_args, pc, idx, socks, backlog, waiting,
                      io, aborted, wake, hist, pool, thread, jobs,
                      htable, dl, ttl, basic>>
    \* zset_delete of a node the caller holds
    \/ /\ zcall.n < MaxZCalls
       /\ \E znode \in DOMAIN zs.heap :
            /\ zs' = zset_delete(zs, znode)
            /\ zcall' = [ZCall0 EXCEPT
                           !.op = "delete", !.name = zs.heap[znode].name,
                           !.node = znode,
                           !.members = [k \in DOMAIN zcall.members
                                             \ {zs.heap[znode].name} |->
                                          zcall.members[k]],
                           !.n = zcall.n + 1]
       /\ UNCHANGED <<db, fd2conn, poll_args, pc, idx, socks, backlog, waiting,
                      io, aborted, wake, hist, pool, thread, jobs,
                      htable, dl, ttl, basic>>
    \* zset_clear: ret is the set of nodes left allocated, which nothing
    \* points to any more and which leave the model; walk is the sequence
    \* of nodes released
    \/ /\ zcall.n < MaxZCalls
       /\ zs' = [zset_clear(zs).zset EXCEPT !.heap = <<>>]
       /\ zcall' = [ZCall0 EXCEPT
                      !.op = "clear",
                      !.ret = DOMAIN zset_clear(zs).zset.heap,
                      !.walk = zset_clear(zs).freed,
                      !.n = zcall.n + 1]
       /\ UNCHANGED <<db, fd2conn, poll_args, pc, idx, socks, backlog, waiting,
                      io, aborted, wake, hist, pool, thread, jobs,
                      htable, dl, ttl, basic>>
    \* zset_lookup
    \/ /\ \E name \in ZNames :
            /\ zs' = [zs EXCEPT !.hmap = zset_lookup(zs, name).hmap]
            /\ zcall' = [ZCall0 EXCEPT
                           !.op = "lookup", !.name = name,
                           !.ret = zset_lookup(zs, name).node,
                           !.members = zcall.members, !.n = zcall.n]
       /\ UNCHANGED <<db, fd2conn, poll_args, pc, idx, socks, backlog, waiting,
                      io, aborted, wake, hist, pool, thread, jobs,
                      htable, dl, ttl, basic>>
    \* zset_seekge: a range query starts
    \/ /\ \E name \in ZNames, score \in ZScores :
            zcall' = [ZCall0 EXCEPT
                        !.op = "seekge", !.name = name, !.score = score,
                        !.ret = zset_seekge(zs, score, name),
                        !.walk = IF zset_seekge(zs, score, name) = NULL
                                 THEN <<>>
                                 ELSE <<zset_seekge(zs, score, name)>>,
                        !.members = zcall.members, !.n = zcall.n]
       /\ UNCHANGED <<zs, db, fd2conn, poll_args, pc, idx, socks, backlog,
                      waiting, io, aborted, wake, hist, pool, thread, jobs,
                      htable, dl, ttl, basic>>
    \* znode_offset of a node the caller holds
    \/ /\ \E znode \in DOMAIN zs.heap, offset \in (0 - MaxOffset)..MaxOffset :
            \E r \in znode_offset(zs, znode, offset) :
               zcall' = [ZCall0 EXCEPT
                           !.op = "offset", !.node = znode, !.offset = offset,
                           !.ret = r,
                           !.members = zcall.members, !.n = zcall.n]
       /\ UNCHANGED <<zs, db, fd2conn, poll_args, pc, idx, socks, backlog,
                      waiting, io, aborted, wake, hist, pool, thread, jobs,
                      htable, dl, ttl, basic>>
    \* znode_offset(node, +1): the range query goes on from its last node
    \/ /\ zcall.op \in {"seekge", "next"}
       /\ zcall.ret \in DOMAIN zs.heap
       /\ \E r \in znode_offset(zs, zcall.ret, 1) :
            zcall' = [zcall EXCEPT
                        !.op = "next", !.node = zcall.ret, !.offset = 1,
                        !.ret = r,
                        !.walk = IF r \in DOMAIN zs.heap THEN Append(@, r)
                                 ELSE @]
       /\ UNCHANGED <<zs, db, fd2conn, poll_args, pc, idx, socks, backlog,
                      waiting, io, aborted, wake, hist, pool, thread, jobs,
                      htable, dl, ttl, basic>>

----------------------------------------------------------------------------
(* The thread pool of thread_pool.h and thread_pool.cpp.  A thread is      *)
(* [worker |-> i] or [producer |-> i]; pool.mu is the thread that holds    *)
(* the mutex or NULL, pool.not_empty the threads blocked on the condition  *)
(* variable; thread[t] is where thread t is (pc) and the Work w it holds.  *)
(* jobs records the calls made (n), the arguments of the jobs in the       *)
(* order pushed (queued) and popped (taken), the jobs finished (run),      *)
(* whether one finished twice (twice), whether a notification released a   *)
(* thread (woken), and whether front() was ever called on an empty queue   *)
(* (underflow).                                                            *)

MaxWorkers == 2

MaxJobs == 2

\* The predicate of the wait: [tp] { return !tp->queue.empty(); }
queue_pred_true(tp) == TRUE

queue_not_empty(tp) == tp.queue # <<>>

\* not_empty.notify_one(): the values not_empty may take; one blocked
\* thread is released, whichever, if there is one.
notify_none(tp) == {tp.not_empty}

notify_one(tp) ==
    IF tp.not_empty = {} THEN {tp.not_empty}
    ELSE {tp.not_empty \ {t} : t \in tp.not_empty}

\* The threads are started, each at the top of worker's loop; the
\* producers are the threads that will call thread_pool_queue.
thread_pool_init(num_threads) ==
    /\ pool.threads = {}
    /\ pool' = [pool EXCEPT !.threads = {[worker |-> i] : i \in 1..num_threads}]
    /\ thread' = [t \in {[worker |-> i] : i \in 1..num_threads}
                          \cup {[producer |-> i] : i \in 1..2} |->
                    [pc |-> IF t \in {[producer |-> i] : i \in 1..2}
                            THEN "idle" ELSE "lock",
                     w |-> NULL]]
    /\ UNCHANGED <<jobs, db, fd2conn, poll_args, pc, idx, socks, backlog,
                   waiting, io, aborted, wake, hist, zs, zcall,
                   htable, dl, ttl, basic>>

\* A worker that runs the job inside the scope of its lock.
worker_run_locked(t) ==
    /\ t \in pool.threads
    /\ \* the mutex is taken: by the unique_lock, or again inside wait
       \* once a notification has released the thread
       \/ /\ \/ thread[t].pc = "lock"
             \/ thread[t].pc = "blocked" /\ t \notin pool.not_empty
          /\ pool.mu = NULL
          /\ pool' = [pool EXCEPT !.mu = t]
          /\ thread' = [thread EXCEPT ![t].pc = "wait"]
          /\ UNCHANGED jobs
       \* wait: the predicate is false; the mutex is released and the
       \* thread blocks, in one step
       \/ /\ thread[t].pc = "wait"
          /\ ~queue_not_empty(pool)
          /\ pool' = [pool EXCEPT !.mu = NULL, !.not_empty = @ \cup {t}]
          /\ thread' = [thread EXCEPT ![t].pc = "blocked"]
          /\ UNCHANGED jobs
       \* wait returns: w = front(), pop_front(), and the lock goes out of
       \* scope.  front() of an empty queue is undefined.
       \/ /\ thread[t].pc = "wait"
          /\ queue_not_empty(pool)
          /\ IF pool.queue = <<>>
             THEN /\ pool' = [pool EXCEPT !.mu = NULL]
                  /\ thread' = [thread EXCEPT ![t].pc = "run"]
                  /\ jobs' = [jobs EXCEPT !.underflow = TRUE]
             ELSE /\ pool' = [pool EXCEPT !.queue = Tail(@)]
                  /\ thread' = [thread EXCEPT ![t] = [pc |-> "run",
                                                      w |-> Head(pool.queue)]]
                  /\ jobs' = [jobs EXCEPT
                                !.taken = Append(@, Head(pool.queue).arg)]
       \* w.f(w.arg) returns
       \/ /\ thread[t].pc = "run"
          /\ thread' = [thread EXCEPT ![t] = [pc |-> "lock", w |-> NULL]]
          /\ jobs' = [jobs EXCEPT
                        !.run = IF thread[t].w = NULL THEN @
                                ELSE @ \cup {thread[t].w.arg},
                        !.twice = @ \/ (thread[t].w # NULL
                                        /\ thread[t].w.arg \in jobs.run)]
          /\ pool' = [pool EXCEPT !.mu = NULL]
    /\ UNCHANGED <<db, fd2conn, poll_args, pc, idx, socks, backlog, waiting,
                   io, aborted, wake, hist, zs, zcall,
                   htable, dl, ttl, basic>>

\* One step of worker thread t.
worker(t) ==
    /\ t \in pool.threads
    /\ \* the mutex is taken: by the unique_lock, or again inside wait
       \* once a notification has released the thread
       \/ /\ \/ thread[t].pc = "lock"
             \/ thread[t].pc = "blocked" /\ t \notin pool.not_empty
          /\ pool.mu = NULL
          /\ pool' = [pool EXCEPT !.mu = t]
          /\ thread' = [thread EXCEPT ![t].pc = "wait"]
          /\ UNCHANGED jobs
       \* wait: the predicate is false; the mutex is released and the
       \* thread blocks, in one step
       \/ /\ thread[t].pc = "wait"
          /\ ~queue_not_empty(pool)
          /\ pool' = [pool EXCEPT !.mu = NULL, !.not_empty = @ \cup {t}]
          /\ thread' = [thread EXCEPT ![t].pc = "blocked"]
          /\ UNCHANGED jobs
       \* wait returns: w = front(), pop_front(), and the lock goes out of
       \* scope.  front() of an empty queue is undefined.
       \/ /\ thread[t].pc = "wait"
          /\ queue_not_empty(pool)
          /\ IF pool.queue = <<>>
             THEN /\ pool' = [pool EXCEPT !.mu = NULL]
                  /\ thread' = [thread EXCEPT ![t].pc = "run"]
                  /\ jobs' = [jobs EXCEPT !.underflow = TRUE]
             ELSE /\ pool' = [pool EXCEPT !.mu = NULL, !.queue = Tail(@)]
                  /\ thread' = [thread EXCEPT ![t] = [pc |-> "run",
                                                      w |-> Head(pool.queue)]]
                  /\ jobs' = [jobs EXCEPT
                                !.taken = Append(@, Head(pool.queue).arg)]
       \* w.f(w.arg) returns
       \/ /\ thread[t].pc = "run"
          /\ thread' = [thread EXCEPT ![t] = [pc |-> "lock", w |-> NULL]]
          /\ jobs' = [jobs EXCEPT
                        !.run = IF thread[t].w = NULL THEN @
                                ELSE @ \cup {thread[t].w.arg},
                        !.twice = @ \/ (thread[t].w # NULL
                                        /\ thread[t].w.arg \in jobs.run)]
          /\ UNCHANGED pool
    /\ UNCHANGED <<db, fd2conn, poll_args, pc, idx, socks, backlog, waiting,
                   io, aborted, wake, hist, zs, zcall,
                   htable, dl, ttl, basic>>

\* One step of thread p inside thread_pool_queue(tp, f, arg), which it
\* entered by taking the mutex.
thread_pool_queue(p) ==
    /\ p \in DOMAIN thread
    /\ \* push_back, and the lock goes out of scope
       \/ /\ thread[p].pc = "push"
          /\ pool' = [pool EXCEPT !.mu = NULL, !.queue = Append(@, thread[p].w)]
          /\ thread' = [thread EXCEPT ![p].pc = "notify"]
          /\ jobs' = [jobs EXCEPT !.queued = Append(@, thread[p].w.arg)]
       \* notify_one, and the call returns
       \/ /\ thread[p].pc = "notify"
          /\ \E ne \in notify_one(pool) :
               /\ pool' = [pool EXCEPT !.not_empty = ne]
               /\ jobs' = [jobs EXCEPT
                             !.woken = @ \/ ne # pool.not_empty]
          /\ thread' = [thread EXCEPT ![p] = [pc |-> "idle", w |-> NULL]]
    /\ UNCHANGED <<db, fd2conn, poll_args, pc, idx, socks, backlog, waiting,
                   io, aborted, wake, hist, zs, zcall,
                   htable, dl, ttl, basic>>

NextPool ==
    \/ \E num_threads \in 1..MaxWorkers : thread_pool_init(num_threads)
    \/ \E t \in pool.threads : worker(t)
    \/ \E p \in DOMAIN thread : thread_pool_queue(p)
    \* a thread calls thread_pool_queue with a job of its own and takes
    \* the mutex
    \/ /\ jobs.n < MaxJobs
       /\ pool.mu = NULL
       /\ \E p \in DOMAIN thread :
            /\ thread[p].pc = "idle"
            /\ thread' = [thread EXCEPT ![p] = [pc |-> "push",
                                                w |-> [f |-> "job",
                                                       arg |-> jobs.n + 1]]]
            /\ pool' = [pool EXCEPT !.mu = p]
       /\ jobs' = [jobs EXCEPT !.n = @ + 1]
       /\ UNCHANGED <<db, fd2conn, poll_args, pc, idx, socks, backlog,
                      waiting, io, aborted, wake, hist, zs, zcall,
                   htable, dl, ttl, basic>>
    \* a blocked thread wakes up though nothing notified it
    \/ /\ \E t \in pool.not_empty :
            /\ thread[t].pc = "blocked"
            /\ pool' = [pool EXCEPT !.not_empty = @ \ {t}]
       /\ UNCHANGED <<thread, jobs, db, fd2conn, poll_args, pc, idx, socks, backlog,
                      waiting, io, aborted, wake, hist, zs, zcall,
                   htable, dl, ttl, basic>>

----------------------------------------------------------------------------
(* A caller of the HMap.  It loads the table with nodes of hash codes      *)
(* 0, 1, 2, ... until the table of 2 * k_rehashing_work buckets is full,   *)
(* so that the next insert starts a migration that one help step cannot    *)
(* finish; from there it inserts, looks up and deletes.  htable.n counts   *)
(* the nodes inserted, htable.calls the calls made on the full table,      *)
(* htable.gone is the set of keys deleted, htable.ret the last result.     *)

MaxHCalls == 3

\* The node of key k, and the key node a lookup or a delete passes.  The
\* hash codes leave bucket 1 of the full table empty.
HKey(k) ==
    [hcode |-> <<0, IF k % (2 * k_rehashing_work) = 1 THEN k - 1 ELSE k>>,
     key |-> k]

\* The number of nodes that fills the table of 2 * k_rehashing_work buckets.
HFill == 2 * k_rehashing_work * k_max_load_factor

\* The keys looked up and deleted: the first and the last inserted, one of
\* a bucket the first help step does not reach, and one never inserted.
HProbes == {0, k_rehashing_work, HFill - 1, 2 * HFill}

NextHMap ==
    \* hm_insert of a new node
    \/ /\ htable.n >= HFill => htable.calls < MaxHCalls
       /\ htable' = [htable EXCEPT
                       !.hmap = hm_insert(htable.hmap, HKey(htable.n)),
                       !.n = @ + 1,
                       !.calls = IF htable.n >= HFill THEN @ + 1 ELSE @,
                       !.ret = NULL]
       /\ UNCHANGED <<db, fd2conn, poll_args, pc, idx, socks, backlog, waiting,
                      io, aborted, wake, hist, zs, zcall, pool, thread, jobs,
                      dl, ttl, basic>>
    \* hm_lookup
    \/ /\ htable.n >= HFill /\ htable.calls < MaxHCalls
       /\ \E k \in HProbes :
            htable' = [htable EXCEPT
                         !.hmap = hm_lookup(htable.hmap, HKey(k), "entry_eq").hmap,
                         !.calls = @ + 1,
                         !.ret = hm_lookup(htable.hmap, HKey(k), "entry_eq").at]
       /\ UNCHANGED <<db, fd2conn, poll_args, pc, idx, socks, backlog, waiting,
                      io, aborted, wake, hist, zs, zcall, pool, thread, jobs,
                      dl, ttl, basic>>
    \* hm_delete
    \/ /\ htable.n >= HFill /\ htable.calls < MaxHCalls
       /\ \E k \in HProbes :
            htable' = [htable EXCEPT
                         !.hmap = hm_delete(htable.hmap, HKey(k), "entry_eq").hmap,
                         !.calls = @ + 1,
                         !.gone = IF hm_delete(htable.hmap, HKey(k), "entry_eq").node
                                     = NULL THEN @ ELSE @ \cup {k},
                         !.ret = hm_delete(htable.hmap, HKey(k), "entry_eq").node]
       /\ UNCHANGED <<db, fd2conn, poll_args, pc, idx, socks, backlog, waiting,
                      io, aborted, wake, hist, zs, zcall, pool, thread, jobs,
                      dl, ttl, basic>>

----------------------------------------------------------------------------
(* The intrusive list of list.h.  A DList is addressed as [dlist |-> i];    *)
(* dl.mem is the memory: the next and prev of every DList, null as         *)
(* constructed.  dl.op, dl.list, dl.node and dl.ret are the last call made, *)
(* its arguments and, for dlist_empty, what it returned.                   *)

MaxDNodes == 4

\* list->next = list; list->prev = list;
dlist_init(mem, list) == [mem EXCEPT ![list] = [next |-> list, prev |-> list]]

\* Linking the node after the list node instead of before it.
dlist_insert_after(mem, list, node) ==
    LET next(m)  == [m EXCEPT ![node].next = m[list].next]
        link(m)  == [m EXCEPT ![m[list].next].prev = node]
        close(m) == [m EXCEPT ![list].next = node]
    IN  close(link(next([mem EXCEPT ![node].prev = list])))

\* node->next = list; node->prev = list->prev; list->prev->next = node;
\* list->prev = node; one assignment after the other.
dlist_insert_before(mem, list, node) ==
    LET prev(m)  == [m EXCEPT ![node].prev = m[list].prev]
        link(m)  == [m EXCEPT ![m[list].prev].next = node]
        close(m) == [m EXCEPT ![list].prev = node]
    IN  close(link(prev([mem EXCEPT ![node].next = list])))

\* A detach that leaves the prev of the node's successor as it was.
dlist_detach_forward(mem, node) ==
    LET null(m) == [m EXCEPT ![node] = [next |-> NULL, prev |-> NULL]]
    IN  null([mem EXCEPT ![mem[node].prev].next = mem[node].next])

\* node->prev->next = node->next; node->next->prev = node->prev;
\* node->next = nullptr; node->prev = nullptr;
dlist_detach(mem, node) ==
    LET back(m) == [m EXCEPT ![m[node].next].prev = m[node].prev]
        null(m) == [m EXCEPT ![node] = [next |-> NULL, prev |-> NULL]]
    IN  null(back([mem EXCEPT ![mem[node].prev].next = mem[node].next]))

dlist_empty(mem, list) == mem[list].next = list

\* The head of the list, and the nodes a caller links into it.
DHead == [dlist |-> 0]

DNodes == {[dlist |-> i] : i \in 1..MaxDNodes}

\* The DLists with both links set, and those with both links null.
DLinked == {n \in DOMAIN dl.mem : dl.mem[n].next # NULL /\ dl.mem[n].prev # NULL}

DUnlinked == {n \in DOMAIN dl.mem : dl.mem[n].next = NULL /\ dl.mem[n].prev = NULL}

\* A caller that keeps to the preconditions: the head is initialised before
\* anything else and again only while the list is empty, a node is
\* inserted while it is unlinked, before the head or a linked node, and a
\* linked node other than the head is detached.
NextDList ==
    \* dlist_init(&head)
    \/ /\ DHead \in DUnlinked \/ dlist_empty(dl.mem, DHead)
       /\ dl' = [mem |-> dlist_init(dl.mem, DHead), op |-> "init",
                 list |-> DHead, node |-> NULL, ret |-> NULL]
       /\ UNCHANGED <<db, fd2conn, poll_args, pc, idx, socks, backlog, waiting,
                      io, aborted, wake, hist, zs, zcall, pool, thread, jobs,
                      htable, ttl, basic>>
    \* dlist_insert_before(list, node)
    \/ /\ \E list \in DLinked, node \in DNodes \cap DUnlinked :
            dl' = [mem |-> dlist_insert_before(dl.mem, list, node),
                   op |-> "insert_before", list |-> list, node |-> node,
                   ret |-> NULL]
       /\ UNCHANGED <<db, fd2conn, poll_args, pc, idx, socks, backlog, waiting,
                      io, aborted, wake, hist, zs, zcall, pool, thread, jobs,
                      htable, ttl, basic>>
    \* dlist_detach(node)
    \/ /\ \E node \in DNodes \cap DLinked :
            dl' = [mem |-> dlist_detach(dl.mem, node), op |-> "detach",
                   list |-> NULL, node |-> node, ret |-> NULL]
       /\ UNCHANGED <<db, fd2conn, poll_args, pc, idx, socks, backlog, waiting,
                      io, aborted, wake, hist, zs, zcall, pool, thread, jobs,
                      htable, ttl, basic>>
    \* dlist_empty(&head)
    \/ /\ DHead \in DLinked
       /\ dl' = [dl EXCEPT !.op = "empty", !.list = DHead, !.node = NULL,
                           !.ret = dlist_empty(dl.mem, DHead)]
       /\ UNCHANGED <<db, fd2conn, poll_args, pc, idx, socks, backlog, waiting,
                      io, aborted, wake, hist, zs, zcall, pool, thread, jobs,
                      htable, ttl, basic>>

----------------------------------------------------------------------------
(* Request frames, as a client builds them.                                *)

RECURSIVE encode_strs(_)
encode_strs(cmd) ==
    IF cmd = <<>> THEN <<>>
    ELSE u32_encode(Len(Head(cmd))) \o Head(cmd) \o encode_strs(Tail(cmd))

encode_command(cmd) == u32_encode(Len(cmd)) \o encode_strs(cmd)

Frame(payload) == u32_encode(Len(payload)) \o payload

Req(cmd) == Frame(encode_command(cmd))

KeyK == << 107 >>

KeyO == << 111 >>

Val1 == << 49 >>

Val2 == << 50 >>

\* Well-framed requests the dispatcher executes against the keyspace.
KVMenu ==
    {Req(<<STR_SET, KeyK, Val1>>), Req(<<STR_SET, KeyK, Val2>>),
     Req(<<STR_SET, KeyO, Val1>>)}
    \cup {Req(<<STR_GET, k>>) : k \in {KeyK, KeyO}}
    \cup {Req(<<STR_DEL, k>>) : k \in {KeyK, KeyO}}

\* Well-framed requests the dispatcher rejects.
ErrMenu ==
    {Req(<<>>), Req(<<STR_SET, KeyK>>), Req(<<<<71, 69, 84>>, KeyK>>)}

\* Frames that break the protocol: a length prefix over the limit, nstr over
\* the limit, a string that runs past the end of the payload, and bytes
\* after the last string.
FrameTooLong == u32_encode(k_max_msg + 1)

FrameTooManyArgs == Frame(u32_encode(k_max_args + 1))

FramePastEnd == Frame(u32_encode(2) \o u32_encode(3) \o STR_GET
                      \o u32_encode(5) \o KeyK)

FrameTrailing == Frame(encode_command(<<STR_GET, KeyK>>) \o <<0>>)

BadMenu == {FrameTooLong, FrameTooManyArgs, FramePastEnd, FrameTrailing}

SeqsUpTo(S, n) == UNION {[1..m -> S] : m \in 0..n}

MaxClients == 2

MaxFrames == 2

MaxCmds == 3

\* What the clients of the event-loop workload send.
LoopScripts ==
    {<<Req(<<STR_SET, KeyK, Val1>>)>>, <<Req(<<STR_GET, KeyK>>)>>}

FramerMenu ==
    {Req(<<STR_SET, KeyK, Val1>>), Req(<<STR_GET, KeyK>>)} \cup ErrMenu \cup BadMenu

\* What the client of the write workload sends.
WriteMenu == {Req(<<STR_SET, KeyK, Val1>>), Req(<<STR_GET, KeyK>>)}

----------------------------------------------------------------------------
(* The TTL heap (spec.md 4.4): an array of (deadline, entry) pairs, slot p *)
(* of the array being heap[p + 1], and the heap_index of every Entry, -1   *)
(* being the sentinel of an Entry that has no slot.  ttl.swaps counts the  *)
(* swaps of the last operation, ttl.last is that operation with the slot   *)
(* its entry had when it was called, ttl.min what peek_min gave after it.  *)

MaxTTLEntries == 6

MaxTTLCalls == 2

TTLEntries == 1..MaxTTLEntries

TTLDeadlines == {10, 20}

heap_parent(i) == (i + 1) \div 2 - 1

heap_left(i) == i * 2 + 1

heap_right(i) == i * 2 + 2

\* A swap that writes the back-link of one of the two pairs it moves.
heap_swap_one_link(t, i, j) ==
    LET a == t.heap[i + 1]
        b == t.heap[j + 1]
    IN [t EXCEPT !.heap = [@ EXCEPT ![i + 1] = b, ![j + 1] = a],
                 !.idx = [@ EXCEPT ![b.ref] = i],
                 !.swaps = @ + 1]

\* Slots i and j change places; each moved pair's entry gets its new slot.
heap_swap(t, i, j) ==
    LET a == t.heap[i + 1]
        b == t.heap[j + 1]
    IN [t EXCEPT !.heap = [@ EXCEPT ![i + 1] = b, ![j + 1] = a],
                 !.idx = [@ EXCEPT ![b.ref] = i, ![a.ref] = j],
                 !.swaps = @ + 1]

RECURSIVE heap_up(_, _)
heap_up(t, pos) ==
    IF pos > 0 /\ t.heap[heap_parent(pos) + 1].val > t.heap[pos + 1].val
    THEN heap_up(heap_swap(t, pos, heap_parent(pos)), heap_parent(pos))
    ELSE t

RECURSIVE heap_down(_, _)
heap_down(t, pos) ==
    LET len == Len(t.heap)
        l == heap_left(pos)
        r == heap_right(pos)
        m1 == IF l < len /\ t.heap[l + 1].val < t.heap[pos + 1].val THEN l ELSE pos
        min_pos == IF r < len /\ t.heap[r + 1].val < t.heap[m1 + 1].val THEN r ELSE m1
    IN IF min_pos = pos THEN t
       ELSE heap_down(heap_swap(t, pos, min_pos), min_pos)

heap_update(t, entry, deadline) ==
    IF t.idx[entry] = -1
    THEN heap_up([t EXCEPT !.heap = Append(@, [val |-> deadline, ref |-> entry]),
                           !.idx[entry] = Len(t.heap)],
                 Len(t.heap))
    ELSE LET pos == t.idx[entry]
             old == t.heap[pos + 1].val
             set == [t EXCEPT !.heap[pos + 1].val = deadline]
         IN IF deadline < old THEN heap_up(set, pos)
            ELSE IF deadline > old THEN heap_down(set, pos)
            ELSE set

heap_remove(t, entry) ==
    LET pos    == t.idx[entry]
        moved  == heap_swap(t, pos, Len(t.heap) - 1)
        popped == [moved EXCEPT !.heap = SubSeq(@, 1, Len(@) - 1)]
        sifted == IF pos >= Len(popped.heap) THEN popped
                  ELSE IF pos > 0 /\ popped.heap[heap_parent(pos) + 1].val
                                         > popped.heap[pos + 1].val
                  THEN heap_up(popped, pos)
                  ELSE heap_down(popped, pos)
    IN [sifted EXCEPT !.idx[entry] = -1]

peek_min(t) == IF t.heap = <<>> THEN NULL ELSE t.heap[1]

TTL0 ==
    [heap |-> <<>>, idx |-> [e \in TTLEntries |-> -1], swaps |-> 0,
     last |-> [op |-> "none", entry |-> 0, at |-> -1], min |-> NULL, calls |-> 0]

\* A keyspace that gives each of its entries a deadline, then changes and
\* drops deadlines, and looks at the earliest deadline after each call.
\* ttl.calls counts the calls made once every entry has had a deadline.
NextHeap ==
    /\ \/ \E deadline \in TTLDeadlines :
             /\ Len(ttl.heap) < MaxTTLEntries
             /\ ttl.calls = 0
             /\ LET entry == Len(ttl.heap) + 1
                    t == heap_update([ttl EXCEPT !.swaps = 0], entry, deadline)
                IN ttl' = [t EXCEPT !.last = [op |-> "update", entry |-> entry, at |-> ttl.idx[entry]],
                                    !.min = peek_min(t)]
       \/ \E entry \in TTLEntries, deadline \in TTLDeadlines :
             /\ Len(ttl.heap) = MaxTTLEntries \/ ttl.calls > 0
             /\ ttl.calls < MaxTTLCalls
             /\ LET t == heap_update([ttl EXCEPT !.swaps = 0], entry, deadline) IN
                ttl' = [t EXCEPT !.last = [op |-> "update", entry |-> entry, at |-> ttl.idx[entry]],
                                 !.min = peek_min(t), !.calls = @ + 1]
       \/ \E entry \in TTLEntries :
             /\ Len(ttl.heap) = MaxTTLEntries \/ ttl.calls > 0
             /\ ttl.calls < MaxTTLCalls
             /\ ttl.idx[entry] # -1
             /\ LET t == heap_remove([ttl EXCEPT !.swaps = 0], entry) IN
                ttl' = [t EXCEPT !.last = [op |-> "remove", entry |-> entry, at |-> ttl.idx[entry]],
                                 !.min = peek_min(t), !.calls = @ + 1]
    /\ UNCHANGED <<db, fd2conn, poll_args, pc, idx, socks, backlog, waiting, io,
                   aborted, wake, hist, zs, zcall, pool, thread, jobs,
                   htable, dl, basic>>

----------------------------------------------------------------------------
(* The BasicKeyValueStore program (src/unnamed/part_000).  It has its own  *)
(* limits and status codes; its requests carry no outer length prefix and  *)
(* its keyspace g_data is a std::map, here a function from key to value.   *)
(* basic.conn is the Conn of main, basic.out what try_one_request left in  *)
(* conn.outgoing before main cleared it, basic.ret what the call returned, *)
(* basic.hist the commands main has encoded so far.                        *)

basic_k_max_args == 16

basic_RES_OK == 0

basic_RES_NX == 1

basic_RES_ERR == 2

MaxBasicReqs == 3

\* A del that leaves the key in the map.
basic_do_request_keep(cmd, g_data, out) ==
    IF Len(cmd) = 2 /\ cmd[1] = STR_GET
    THEN IF cmd[2] \notin DOMAIN g_data
         THEN [g_data |-> g_data, out |-> [out EXCEPT !.status = basic_RES_NX]]
         ELSE [g_data |-> g_data, out |-> [out EXCEPT !.data = g_data[cmd[2]]]]
    ELSE IF Len(cmd) = 3 /\ cmd[1] = STR_SET
    THEN [g_data |-> FnPut(g_data, cmd[2], cmd[3]), out |-> out]
    ELSE IF Len(cmd) = 2 /\ cmd[1] = STR_DEL
    THEN [g_data |-> g_data, out |-> out]
    ELSE [g_data |-> g_data, out |-> [out EXCEPT !.status = basic_RES_ERR]]

basic_do_request(cmd, g_data, out) ==
    IF Len(cmd) = 2 /\ cmd[1] = STR_GET
    THEN IF cmd[2] \notin DOMAIN g_data
         THEN [g_data |-> g_data, out |-> [out EXCEPT !.status = basic_RES_NX]]
         ELSE [g_data |-> g_data, out |-> [out EXCEPT !.data = g_data[cmd[2]]]]
    ELSE IF Len(cmd) = 3 /\ cmd[1] = STR_SET
    THEN [g_data |-> FnPut(g_data, cmd[2], cmd[3]), out |-> out]
    ELSE IF Len(cmd) = 2 /\ cmd[1] = STR_DEL
    THEN [g_data |-> FnDel(g_data, cmd[2]), out |-> out]
    ELSE [g_data |-> g_data, out |-> [out EXCEPT !.status = basic_RES_ERR]]

\* parse_req and make_response of this program are the code of the server's,
\* with this program's k_max_args; they are written out here.
basic_try_one_request(conn, g_data) ==
    IF conn.incoming = <<>>
    THEN [ret |-> FALSE, conn |-> conn, g_data |-> g_data]
    ELSE LET nstr   == read_u32(conn.incoming, 0)
             parsed == IF ~nstr.ok THEN [rc |-> -1, out |-> <<>>]
                       ELSE IF nstr.out > basic_k_max_args THEN [rc |-> -1, out |-> <<>>]
                       ELSE parse_strs(conn.incoming, nstr.at, nstr.out, <<>>)
         IN
         IF parsed.rc < 0
         THEN [ret |-> FALSE, conn |-> [conn EXCEPT !.want_close = TRUE],
               g_data |-> g_data]
         ELSE LET done     == basic_do_request(parsed.out, g_data,
                                               [status |-> basic_RES_OK, data |-> <<>>])
                  resp_len == 4 + Len(done.out.data)
              IN
              [ret |-> TRUE,
               conn |-> [conn EXCEPT !.outgoing =
                            buf_append(buf_append(buf_append(@, u32_encode(resp_len)),
                                                  u32_encode(done.out.status)),
                                       done.out.data)],
               g_data |-> done.g_data]

Basic0 ==
    [g_data |-> [k \in {} |-> <<>>],
     conn |-> [incoming |-> <<>>, outgoing |-> <<>>, want_close |-> FALSE],
     out |-> <<>>, ret |-> FALSE, hist |-> <<>>]

\* The commands main is given to send: the three commands on two keys, and
\* commands do_request or parse_req refuses.
BasicCmds ==
    {<<STR_SET, k, v>> : k \in {KeyK, KeyO}, v \in {<<>>, Val1}}
    \cup {<<STR_GET, k>> : k \in {KeyK, KeyO}}
    \cup {<<STR_DEL, k>> : k \in {KeyK, KeyO}}
    \cup {<<>>, <<STR_GET>>, <<STR_GET, KeyK, KeyK>>, <<STR_SET, KeyK>>,
          <<STR_SET, KeyK, Val1, Val1>>, <<STR_DEL>>, <<<<71, 69, 84>>, KeyK>>,
          [i \in 1..basic_k_max_args |-> <<>>],
          [i \in 1..(basic_k_max_args + 1) |-> <<>>]}

\* One test of main: encode_command into conn.incoming, try_one_request,
\* then both buffers are cleared.
NextBasic ==
    /\ Len(basic.hist) < MaxBasicReqs
    /\ \E cmd \in BasicCmds :
          LET r == basic_try_one_request(
                       [basic.conn EXCEPT !.incoming = buf_append(@, encode_command(cmd))],
                       basic.g_data)
          IN basic' = [g_data |-> r.g_data,
                       conn |-> [r.conn EXCEPT !.incoming = <<>>, !.outgoing = <<>>],
                       out |-> r.conn.outgoing,
                       ret |-> r.ret,
                       hist |-> Append(basic.hist, cmd)]
    /\ UNCHANGED <<db, fd2conn, poll_args, pc, idx, socks, backlog, waiting, io,
                   aborted, wake, hist, zs, zcall, pool, thread, jobs,
                   htable, dl, ttl>>

InitServer ==
    /\ db = HMap0
    /\ fd2conn = [i \in {} |-> NULL]
    /\ poll_args = <<>>
    /\ pc = "poll"
    /\ idx = 0
    /\ socks = [i \in {} |-> NULL]
    /\ backlog = <<>>
    /\ io = NoIO
    /\ aborted = "no"
    /\ wake = Wake0
    /\ hist = [c |-> [i \in {} |-> NULL], nacc |-> 0]
    /\ zs = [hmap |-> HMap0, root |-> NULL, heap |-> <<>>]
    /\ zcall = ZCall0
    /\ pool = [threads |-> {}, queue |-> <<>>, mu |-> NULL, not_empty |-> {}]
    /\ thread = <<>>
    /\ jobs = [n |-> 0, queued |-> <<>>, taken |-> <<>>, run |-> {},
               twice |-> FALSE, woken |-> FALSE, underflow |-> FALSE]
    /\ htable = [hmap |-> HMap0, n |-> 0, calls |-> 0, gone |-> {}, ret |-> NULL]
    /\ dl = [mem |-> [n \in {[dlist |-> i] : i \in 0..MaxDNodes} |->
                         [next |-> NULL, prev |-> NULL]],
             op |-> "none", list |-> NULL, node |-> NULL, ret |-> NULL]
    /\ ttl = TTL0
    /\ basic = Basic0

\* Several clients, short scripts: the event loop.
Clients(scripts, split, partial) ==
    {[script |-> s, split |-> split, partial |-> partial] : s \in scripts}

Init == InitServer /\ waiting \in [1..MaxClients -> Clients(LoopScripts, "whole", FALSE)]

\* One client, any script of requests, rejected requests and broken frames.
InitFramer ==
    InitServer
    /\ waiting \in [1..1 -> Clients(SeqsUpTo(FramerMenu, MaxFrames), "bytes", FALSE)]

\* One client, any script of get/set/del over two keys of one bucket.
InitKV ==
    InitServer
    /\ waiting \in [1..1 -> Clients(SeqsUpTo(KVMenu, MaxCmds), "frames", FALSE)]

\* One client that sends a request, a frame that breaks the protocol and
\* another request, cut into reads anywhere.
InitBroken ==
    InitServer
    /\ waiting \in [1..1 -> Clients({<<a, b, c>> : a \in WriteMenu, b \in BadMenu,
                                                  c \in WriteMenu},
                                    "bytes", FALSE)]

\* One client whose socket takes the responses in pieces.
InitWrite ==
    InitServer
    /\ waiting \in [1..1 -> Clients(SeqsUpTo(WriteMenu, MaxFrames), "whole", TRUE)]

Spec == Init /\ [][Next]_vars

SpecWrite == InitWrite /\ [][Next]_vars

SpecFramer == InitFramer /\ [][Next]_vars

SpecKV == InitKV /\ [][Next]_vars

SpecBroken == InitBroken /\ [][Next]_vars

\* No client: the sorted set and the thread pool start empty.
InitIdle == InitServer /\ waiting = <<>>

\* The calls on a sorted set.
SpecZSet == InitIdle /\ [][NextZSet]_vars

SpecHMap == InitIdle /\ [][NextHMap]_vars

SpecDList == InitIdle /\ [][NextDList]_vars

SpecBasic == InitIdle /\ [][NextBasic]_vars

SpecHeap == InitIdle /\ [][NextHeap]_vars

\* The pool with its workers and the threads that queue jobs.  A thread
\* that can take a step again and again takes it in the end; nothing makes
\* a thread call thread_pool_queue, or wake up without a notification.
SpecPool ==
    /\ InitIdle /\ [][NextPool]_vars
    /\ \A i \in 1..MaxWorkers : SF_vars(worker([worker |-> i]))
    /\ \A i \in 1..2 : WF_vars(thread_pool_queue([producer |-> i]))

-----------------------------------------------------------------------------
(* The keyspace as a plain map: what a history of executed commands says   *)
(* the answers and the contents must be.                                   *)

IsGet(c) == Len(c) = 2 /\ c[1] = STR_GET

IsSet(c) == Len(c) = 3 /\ c[1] = STR_SET

IsDel(c) == Len(c) = 2 /\ c[1] = STR_DEL

MaxOf(S) == CHOOSE x \in S : \A y \in S : y <= x

\* The commands before position i of the log that write the key.
WritesBefore(log, i, key) ==
    {j \in 1..(i - 1) : (IsSet(log[j].cmd) \/ IsDel(log[j].cmd))
                          /\ log[j].cmd[2] = key}

\* <<v>> when the key holds v before position i of the log, <<>> when absent.
StoredBefore(log, i, key) ==
    LET W == WritesBefore(log, i, key) IN
    IF W = {} THEN <<>>
    ELSE LET c == log[MaxOf(W)].cmd IN IF IsSet(c) THEN <<c[3]>> ELSE <<>>

PlainMapResponse(log, i) ==
    LET c == log[i].cmd IN
    IF IsGet(c)
    THEN LET st == StoredBefore(log, i, c[2]) IN
         IF st = <<>> THEN [status |-> RES_NX, data |-> <<>>]
         ELSE [status |-> RES_OK, data |-> st[1]]
    ELSE [status |-> RES_OK, data |-> <<>>]

LogKeys(log) == {log[j].cmd[2] : j \in WritesBefore(log, Len(log) + 1, KeyK)
                                      \cup WritesBefore(log, Len(log) + 1, KeyO)}

PlainMapContents(log) ==
    {<<k, StoredBefore(log, Len(log) + 1, k)[1]>> :
        k \in {q \in LogKeys(log) : StoredBefore(log, Len(log) + 1, q) # <<>>}}

DbContents == {<<hm_nodes(db)[j].key, hm_nodes(db)[j].val>> :
                  j \in 1..Len(hm_nodes(db))}

\* C1: the keyspace behaves as a plain map from byte strings to byte
\* strings.  With one connection executing get/set/del commands, each get
\* answers OK with the value of the latest earlier set of the key that no
\* del followed, and NX with no data otherwise; each set and del answers OK
\* with no data; the table holds exactly the keys the history leaves
\* present, each once, with its latest value (a set of an existing key adds
\* no second entry, a del of an absent key changes nothing).
C1_KeyspaceIsPlainMap ==
    \A f \in DOMAIN hist.c :
        hist.nacc = 1 =>
            LET log == hist.c[f].log IN
            /\ \A i \in 1..Len(log) :
                   (IsGet(log[i].cmd) \/ IsSet(log[i].cmd) \/ IsDel(log[i].cmd))
                   => log[i].resp = PlainMapResponse(log, i)
            /\ DbContents = PlainMapContents(log)
            /\ Len(hm_nodes(db)) = Cardinality(PlainMapContents(log))
            /\ hm_size(db) = Len(hm_nodes(db))

\* A key set twice and then read back with the second value.
C1_Witness ==
    \E f \in DOMAIN hist.c :
        LET log == hist.c[f].log IN
        /\ Len(log) = 3
        /\ log[1].cmd = <<STR_SET, KeyK, Val1>>
        /\ log[2].cmd = <<STR_SET, KeyK, Val2>>
        /\ log[3].cmd = <<STR_GET, KeyK>>
        /\ log[3].resp = [status |-> RES_OK, data |-> Val2]
        /\ Len(hm_nodes(db)) = 1

-----------------------------------------------------------------------------
(* What a client's script, cut anywhere, must produce.                     *)

\* The commands the clients encode.
KnownCmds ==
    {<<STR_SET, KeyK, Val1>>, <<STR_SET, KeyK, Val2>>, <<STR_SET, KeyO, Val1>>,
     <<STR_GET, KeyK>>, <<STR_GET, KeyO>>, <<STR_DEL, KeyK>>, <<STR_DEL, KeyO>>,
     <<>>, <<STR_SET, KeyK>>, <<<<71, 69, 84>>, KeyK>>}

ValidFrame(frame) == \E c \in KnownCmds : Req(c) = frame

ClientCmd(frame) == CHOOSE c \in KnownCmds : Req(c) = frame

AllValid(script) == \A i \in 1..Len(script) : ValidFrame(script[i])

\* The offset in the stream at which frame i of the script ends.
FrameEnd(script, i) == Len(Flatten(Take(script, i)))

\* Bytes of the script the server has read so far.
Delivered(f) == Len(Flatten(socks[f].script)) - Len(socks[f].inb)

\* Frames of the script that lie wholly within the first rx bytes.
NumComplete(script, rx) ==
    Cardinality({i \in 1..Len(script) : FrameEnd(script, i) <= rx})

RefLog(script) == [i \in 1..Len(script) |-> [cmd |-> ClientCmd(script[i])]]

\* The answer to frame i of a script sent to a fresh server.
RefResponse(script, i) ==
    LET c == ClientCmd(script[i]) IN
    IF IsGet(c) \/ IsSet(c) \/ IsDel(c)
    THEN PlainMapResponse(RefLog(script), i)
    ELSE [status |-> RES_ERR, data |-> <<>>]

Malformed == <<[status |-> -1, data |-> <<>>]>>

\* A byte stream read as response frames: the list of [status, data], or
\* Malformed when the stream is not a sequence of whole frames.
RECURSIVE ParseResponses(_)
ParseResponses(bytes) ==
    IF bytes = <<>> THEN <<>>
    ELSE IF Len(bytes) < 8 THEN Malformed
    ELSE LET len == u32_decode(SubSeq(bytes, 1, 4)) IN
         IF len < 4 \/ Len(bytes) < 4 + len THEN Malformed
         ELSE LET rest == ParseResponses(SubSeq(bytes, 5 + len, Len(bytes))) IN
              IF rest = Malformed THEN rest
              ELSE <<[status |-> u32_decode(SubSeq(bytes, 5, 8)),
                      data |-> SubSeq(bytes, 9, 4 + len)]>> \o rest

\* The connection is inside the framer loop of handle_read.
InFramer(f) == pc = "framer" /\ poll_args[idx].fd = f

\* C2: the framer is correct for any segmentation of the input.  When a
\* client sends valid frames cut into reads of any sizes (inside the length
\* prefix, inside a payload, several frames in one read), then outside the
\* framer loop the server has executed exactly the frames wholly received,
\* in order, has produced exactly one response per frame, equal to the
\* answer the script determines whatever the cuts were, and keeps exactly
\* the bytes of the frame still incomplete.
C2_FramerSegmentation ==
    \A f \in DOMAIN socks :
        LET script == socks[f].script
            n      == NumComplete(script, Delivered(f))
            log    == hist.c[f].log
        IN  (AllValid(script) /\ ~InFramer(f)) =>
                /\ Len(log) = n
                /\ \A i \in 1..n :
                       /\ log[i].cmd = ClientCmd(script[i])
                       /\ log[i].resp = RefResponse(script, i)
                /\ ParseResponses(hist.c[f].gen) = [i \in 1..n |-> log[i].resp]
                /\ fd2conn[f].incoming =
                       SubSeq(Flatten(script), FrameEnd(script, n) + 1,
                              Delivered(f))

\* One read brought the first frame and a part of the second one.
C2_Witness ==
    \E f \in DOMAIN socks :
        /\ AllValid(socks[f].script) /\ Len(socks[f].script) = 2
        /\ pc = "read_end" /\ poll_args[idx].fd = f
        /\ Len(hist.c[f].log) = 1
        /\ fd2conn[f].incoming # <<>>
        /\ socks[f].inb # <<>>

-----------------------------------------------------------------------------
(* What one call of try_one_request does with the front of the buffer.     *)

\* The buffer of the connection being handled.
CurIncoming == fd2conn[poll_args[idx].fd].incoming

\* The front of the buffer is a protocol error: a length prefix over
\* 32 MiB, or a whole frame whose payload announces more than 200000
\* strings, has a string running past its end, or has bytes left over.
ProtoErrorAtHead(incoming) ==
    /\ Len(incoming) >= 4
    /\ \/ u32_decode(SubSeq(incoming, 1, 4)) > k_max_msg
       \/ IsPrefix(Frame(u32_encode(k_max_args + 1)), incoming)
       \/ IsPrefix(FramePastEnd, incoming)
       \/ IsPrefix(FrameTrailing, incoming)

\* C3: a protocol error closes the connection.  When the buffer starts
\* with a length prefix over 32 MiB, or with a whole frame whose payload has
\* nstr over 200000, a string past the end, or trailing bytes, the call sets
\* want_close, returns false, appends no response and leaves the buffers
\* and the keyspace as they were.
C3_ProtocolErrorCloses ==
    [][(Framer /\ ProtoErrorAtHead(CurIncoming)) =>
          /\ fd2conn' = [fd2conn EXCEPT ![poll_args[idx].fd].want_close = TRUE]
          /\ pc' = "read_end"
          /\ db' = db
          /\ hist' = hist]_vars

\* A request was answered, then the frame behind it broke the protocol.
C3_Witness ==
    /\ pc = "read_end"
    /\ fd2conn[poll_args[idx].fd].want_close
    /\ ProtoErrorAtHead(CurIncoming)
    /\ Len(hist.c[poll_args[idx].fd].log) = 1
    /\ fd2conn[poll_args[idx].fd].outgoing # <<>>

\* The front of the buffer is a whole, well-framed request that is not a
\* command: no strings, a wrong number of arguments, an unknown name.
ErrRequestAtHead(incoming) ==
    \E c \in {<<>>, <<STR_SET, KeyK>>, <<<<71, 69, 84>>, KeyK>>} :
        IsPrefix(Req(c), incoming)

ErrRequestLen(incoming) ==
    4 + u32_decode(SubSeq(incoming, 1, 4))

\* C4: a command error is answered with ERR on an open connection.  A
\* well-framed request with an unknown name, the wrong number of arguments
\* or no strings gets the response frame of status ERR with no data; the
\* request is consumed, want_close stays false, the keyspace is unchanged
\* and the framer goes on to the next request.
C4_CommandErrorAnswered ==
    [][(Framer /\ ErrRequestAtHead(CurIncoming)) =>
          /\ fd2conn' = [fd2conn EXCEPT
                ![poll_args[idx].fd].outgoing = @ \o <<4, 0, 0, 0, 1, 0, 0, 0>>,
                ![poll_args[idx].fd].incoming =
                    SubSeq(@, ErrRequestLen(@) + 1, Len(@))]
          /\ ~fd2conn'[poll_args[idx].fd].want_close
          /\ pc' = "framer"
          /\ db' = db]_vars

\* A rejected request, and after it a request that was executed.
C4_Witness ==
    \E f \in DOMAIN fd2conn :
        /\ fd2conn[f] # NULL /\ ~fd2conn[f].want_close
        /\ Len(hist.c[f].log) = 2
        /\ hist.c[f].log[1].resp.status = RES_ERR
        /\ hist.c[f].log[2].cmd = <<STR_SET, KeyK, Val1>>
        /\ hist.c[f].log[2].resp.status = RES_OK

\* The front of the buffer is not yet a whole frame.
IncompleteAtHead(incoming) ==
    \/ Len(incoming) < 4
    \/ /\ u32_decode(SubSeq(incoming, 1, 4)) <= k_max_msg
       /\ Len(incoming) < 4 + u32_decode(SubSeq(incoming, 1, 4))

\* C5: incomplete input is kept, not consumed.  With fewer than 4 bytes, or
\* a length prefix within the limit and fewer than 4 + len bytes, the call
\* returns false and changes nothing: not the Conn, not the keyspace, no
\* response.  The buffer always ends with the last byte read, so the bytes
\* that arrive later complete the request.
C5_IncompleteInputKept ==
    /\ [](\A f \in DOMAIN socks :
             IsSuffix(fd2conn[f].incoming,
                      Take(Flatten(socks[f].script), Delivered(f))))
    /\ [][(Framer /\ IncompleteAtHead(CurIncoming)) =>
             /\ fd2conn' = fd2conn
             /\ pc' = "read_end"
             /\ db' = db
             /\ hist' = hist]_vars

\* The length prefix has arrived and the payload has not.
C5_Witness ==
    /\ pc = "read_end"
    /\ Len(CurIncoming) >= 4
    /\ IncompleteAtHead(CurIncoming)
    /\ ~fd2conn[poll_args[idx].fd].want_close

-----------------------------------------------------------------------------
(* Responses and readiness intents.                                        *)

\* C6: responses are well formed.  Everything a connection has appended to
\* outgoing reads back as a sequence of whole frames, one per executed
\* request, each with len = 4 + |data|, a status among OK (0), ERR (1) and
\* NX (2) and the data of its response; outgoing is always a suffix of
\* that sequence.
C6_ResponsesWellFormed ==
    \A f \in DOMAIN hist.c :
        LET frames == ParseResponses(hist.c[f].gen)
            log    == hist.c[f].log
        IN  /\ frames # Malformed
            /\ Len(frames) = Len(log)
            /\ \A i \in 1..Len(frames) :
                   /\ frames[i].status \in {0, 1, 2}
                   /\ frames[i] = log[i].resp
            /\ IsSuffix(fd2conn[f].outgoing, hist.c[f].gen)

\* The first response has been written, the second, which carries data, is
\* still in outgoing.
C6_Witness ==
    \E f \in DOMAIN hist.c :
        /\ Len(hist.c[f].log) = 2
        /\ hist.c[f].log[2].resp.data # <<>>
        /\ fd2conn[f].outgoing # <<>>
        /\ fd2conn[f].outgoing # hist.c[f].gen

\* The events the loop asks for on the connection's descriptor.
PollEvents(f) ==
    LET i == CHOOSE j \in 1..Len(build_poll_args) : build_poll_args[j].fd = f
    IN  build_poll_args[i].events

\* C7: the readiness intent matches the buffer state.  Whenever the loop is
\* about to wait, every registered Conn has want_write exactly when its
\* outgoing is non-empty and want_read exactly when it is empty, and the
\* descriptor is polled for writability or readability accordingly: a
\* connection whose outgoing has drained is back to reading.
C7_IntentMatchesOutgoing ==
    pc = "poll" =>
        \A f \in Conns :
            /\ fd2conn[f].want_write <=> Len(fd2conn[f].outgoing) > 0
            /\ fd2conn[f].want_read <=> Len(fd2conn[f].outgoing) = 0
            /\ POLLOUT \in PollEvents(f) <=> Len(fd2conn[f].outgoing) > 0
            /\ POLLIN \in PollEvents(f) <=> Len(fd2conn[f].outgoing) = 0

\* A response partly written: the rest waits for writability.
C7_Witness ==
    /\ pc = "poll"
    /\ \E f \in Conns :
          /\ fd2conn[f].outgoing # <<>>
          /\ socks[f].wire # <<>>
          /\ fd2conn[f].want_write /\ ~fd2conn[f].want_read

-----------------------------------------------------------------------------
(* The life of a Conn.                                                     *)

\* The loop is handling the connection of the current poll entry.
Handling == pc \in {"read", "framer", "read_end", "write", "close"}

\* The Conn handle_accept returns for descriptor f.
FreshConn(f) == [fd |-> f, want_read |-> TRUE, want_write |-> FALSE,
                 want_close |-> FALSE, incoming |-> <<>>, outgoing |-> <<>>]

\* C8: the life of a Conn.  A Conn appears in the registry only in the
\* listener step, after a successful accept, under its descriptor and with
\* want_read set, want_write and want_close clear and empty buffers.  It
\* leaves the registry only at the end of its own handling, and it does so,
\* with its socket closed, whenever want_close is set or an error event was
\* reported for it.  Hence want_close is only ever set on the Conn being
\* handled, no registered Conn has want_close when the loop waits, and the
\* Conn being handled is registered and is the one that was polled.
C8_ConnLifecycle ==
    /\ [][\A f \in Conns' \ Conns :
             /\ pc = "listener"
             /\ io'.op = "accept" /\ io'.rv > 0
             /\ fd2conn'[f] = FreshConn(f)
             /\ f \in DOMAIN socks' \ DOMAIN socks]_vars
    /\ [][\A f \in Conns \ Conns' :
             /\ pc = "close" /\ f = poll_args[idx].fd
             /\ POLLERR \in poll_args[idx].revents \/ fd2conn[f].want_close
             /\ f \notin DOMAIN socks']_vars
    /\ [][(pc = "close" /\ pc' = "conns"
            /\ (POLLERR \in poll_args[idx].revents
                \/ fd2conn[poll_args[idx].fd].want_close))
           => /\ poll_args[idx].fd \notin Conns'
              /\ poll_args[idx].fd \notin DOMAIN socks']_vars
    /\ [](\A f \in Conns :
             fd2conn[f].want_close => Handling /\ poll_args[idx].fd = f)
    /\ [](pc = "poll" => \A f \in Conns : ~fd2conn[f].want_close)
    /\ [](Handling => /\ poll_args[idx].fd \in Conns
                       /\ hist.c[poll_args[idx].fd].id = wake.ids[idx])

\* The first Conn was destroyed and the next one got its descriptor.
C8_Witness ==
    /\ pc = "poll"
    /\ hist.nacc = 2
    /\ Conns = {ListenFd + 1}
    /\ hist.c[ListenFd + 1].id = 2
    /\ fd2conn[ListenFd + 1] = FreshConn(ListenFd + 1)

\* The system call of the last step failed for good, or found the peer gone.
IoFailed ==
    \/ io.op = "read" /\ io.rv = 0
    \/ io.op \in {"read", "write"} /\ io.rv < 0 /\ io.errno # EAGAIN

IoAgain == io.op \in {"read", "write"} /\ io.rv < 0 /\ io.errno = EAGAIN

\* C9: I/O outcomes.  A read of zero bytes, or a read or write failing with
\* an error other than EAGAIN, sets want_close on the Conn and changes
\* nothing else of it; the Conn is then closed before the loop waits again.
\* A read or write failing with EAGAIN leaves buffers, intents and
\* want_close as they were when the call was made (for the write at the
\* end of handle_read: write wanted, read not).
C9_IoOutcomes ==
    /\ [][((Read \/ Write) /\ IoFailed')
           => fd2conn' = [fd2conn EXCEPT
                            ![poll_args[idx].fd].want_close = TRUE]]_vars
    /\ [][(ReadEnd /\ IoFailed')
           => fd2conn' = [fd2conn EXCEPT
                            ![poll_args[idx].fd].want_close = TRUE,
                            ![poll_args[idx].fd].want_read = FALSE,
                            ![poll_args[idx].fd].want_write = TRUE]]_vars
    /\ [][((Read \/ Write) /\ IoAgain') => fd2conn' = fd2conn]_vars
    /\ [][(ReadEnd /\ IoAgain')
           => fd2conn' = [fd2conn EXCEPT
                            ![poll_args[idx].fd].want_read = FALSE,
                            ![poll_args[idx].fd].want_write = TRUE]]_vars
    /\ [](IoFailed => /\ pc \in {"write", "close"}
                       /\ fd2conn[poll_args[idx].fd].want_close)
    /\ [][(pc = "close" /\ pc' = "conns"
            /\ fd2conn[poll_args[idx].fd].want_close)
           => poll_args[idx].fd \notin Conns']_vars

\* The peer closed, and read returned zero.
C9_Witness ==
    /\ io.op = "read" /\ io.rv = 0
    /\ pc = "write"
    /\ fd2conn[poll_args[idx].fd].want_close

-----------------------------------------------------------------------------
(* The listener.                                                           *)

\* The listener step has just ended with a successful accept.
Accepted == pc = "conns" /\ idx = 2 /\ io.op = "accept" /\ io.rv > 0

\* C10: one accept per iteration.  When the listener is reported ready the
\* loop calls accept once in that iteration: a successful call takes the
\* oldest pending connection off the queue and registers it, and every
\* other pending connection stays queued, in order, for a later
\* iteration; a step in which the listener was not reported ready, or in
\* which accept failed, accepts nothing.  The listener is polled for
\* readability in every iteration.
C10_OneAcceptPerIteration ==
    /\ [][Listener =>
             /\ IF poll_args[1].revents # {} /\ io'.op = "accept" /\ io'.rv > 0
                THEN /\ backlog # <<>>
                     /\ backlog' = Tail(backlog)
                     /\ Cardinality(DOMAIN socks') = Cardinality(DOMAIN socks) + 1
                     /\ wake'.pending = wake.pending - 1
                ELSE /\ backlog' = backlog
                     /\ socks' = socks
                     /\ fd2conn' = fd2conn
                     /\ wake'.pending = wake.pending]_vars
    /\ [](build_poll_args[1] =
             [fd |-> ListenFd, events |-> {POLLIN}, revents |-> {}])

\* Two connections were pending at wake-up: one is accepted, one is left.
C10_Witness ==
    /\ Accepted
    /\ wake.pending = 1
    /\ Len(backlog) = 1
    /\ Cardinality(Conns) = 1

\* C10 as stated: after a listener step that accepted, no connection that
\* was pending at wake-up is left unaccepted.
C10_AllPendingAccepted == Accepted => wake.pending <= 0

----------------------------------------------------------------------------
(* The sorted set.                                                         *)

\* The nodes reachable from n by left and right links, in order.
RECURSIVE InOrder(_, _)
InOrder(heap, n) ==
    IF n = NULL THEN <<>>
    ELSE InOrder(heap, heap[n].left) \o <<n>> \o InOrder(heap, heap[n].right)

Range(s) == {s[i] : i \in 1..Len(s)}

NoRepeat(s) == \A i, j \in 1..Len(s) : s[i] = s[j] => i = j

\* The ZNodes in the hmap, and the ZNodes in the tree under the root.
HMapNodes == [i \in 1..Len(hm_nodes(zs.hmap)) |-> hm_nodes(zs.hmap)[i].id]

TreeNodes == InOrder(zs.heap, zs.root)

\* C11: after any sequence of zset_insert and zset_delete calls the nodes
\* reachable from the root are exactly the nodes stored in the hmap, each
\* once in each structure, and the hmap size is the tree's node count.
C11_DualInvariant ==
    /\ Range(TreeNodes) = Range(HMapNodes)
    /\ NoRepeat(TreeNodes) /\ NoRepeat(HMapNodes)
    /\ hm_size(zs.hmap) = Len(TreeNodes)
    /\ hm_size(zs.hmap) = IF zs.root = NULL THEN 0 ELSE zs.heap[zs.root].cnt

\* The order of the sorted set: by score, then by name as byte strings, a
\* strict prefix before the longer name.
NameLess(a, b) ==
    \E i \in 1..Len(b) :
        /\ \A j \in 1..(i - 1) : j <= Len(a) /\ a[j] = b[j]
        /\ i > Len(a) \/ a[i] < b[i]

KeyLess(a, b) ==
    a.score < b.score \/ (a.score = b.score /\ NameLess(a.name, b.name))

Ascending(heap, s) ==
    \A i, j \in 1..Len(s) : i < j => KeyLess(heap[s[i]], heap[s[j]])

\* The names in the hmap.
HMapNames == {hm_nodes(zs.hmap)[i].name : i \in 1..Len(hm_nodes(zs.hmap))}

\* The call made in this step gave a member a score it did not have.
Rescored ==
    /\ zcall'.op = "insert"
    /\ zcall'.name \in DOMAIN zcall.members
    /\ zcall.members[zcall'.name] # zcall'.score

\* C12: zset_insert of a member with a different score keeps the
\* membership, makes zset_lookup report the new score and leaves the tree
\* an in-order walk of which visits every member once, in ascending
\* (score, name) order.
C12_UpdateKeepsOrder ==
    [][Rescored =>
          /\ HMapNames' = DOMAIN zcall.members
          /\ zset_lookup(zs', zcall'.name).node \in DOMAIN zs'.heap
          /\ zs'.heap[zset_lookup(zs', zcall'.name).node].score = zcall'.score
          /\ Range(TreeNodes') = Range(HMapNodes')
          /\ NoRepeat(TreeNodes')
          /\ Ascending(zs'.heap, TreeNodes')]_vars

\* C13: zset_insert returns true iff no member had the name before the
\* call, and then a new node was created; on a member with the same score
\* it returns false and changes nothing (the nodes, their links and
\* scores, the root, what the hmap holds); on a member with another score
\* it returns false.
C13_InsertReturn ==
    [][zcall'.op = "insert" =>
          /\ zcall'.ret = (zcall'.name \notin DOMAIN zcall.members)
          /\ zcall'.ret =>
                /\ Cardinality(DOMAIN zs'.heap) = Cardinality(DOMAIN zs.heap) + 1
                /\ HMapNames' = HMapNames \cup {zcall'.name}
          /\ ~zcall'.ret => DOMAIN zs'.heap = DOMAIN zs.heap
          /\ (/\ zcall'.name \in DOMAIN zcall.members
              /\ zcall.members[zcall'.name] = zcall'.score) =>
                /\ zs'.heap = zs.heap
                /\ zs'.root = zs.root
                /\ Range(hm_nodes(zs'.hmap)) = Range(hm_nodes(zs.hmap))
                /\ hm_size(zs'.hmap) = hm_size(zs.hmap)]_vars

\* An insert of a member with a new score, which returned false, while the
\* set has another member.
C13_Witness ==
    /\ zcall.op = "insert" /\ zcall.ret = FALSE
    /\ zcall.n = 3
    /\ Cardinality(DOMAIN zcall.members) = 2
    /\ zs.heap[zset_lookup(zs, zcall.name).node].score = zcall.score

\* The members whose key is not below (score, name).
MembersGE(score, name) ==
    {n \in Range(HMapNodes) :
        ~KeyLess(zs.heap[n], [score |-> score, name |-> name])}

\* The member of the set s of nodes with the smallest key; none: NULL.
Smallest(s) ==
    IF s = {} THEN NULL
    ELSE CHOOSE n \in s : \A m \in s : m = n \/ KeyLess(zs.heap[n], zs.heap[m])

\* C14: zset_seekge returns the member with the smallest key that is
\* >= (score, name), and none exactly when every member's key is below
\* the target; it never returns a member below the target.
C14_SeekGe ==
    zcall.op = "seekge" =>
        /\ zcall.ret = Smallest(MembersGE(zcall.score, zcall.name))
        /\ zcall.ret = NULL <=> MembersGE(zcall.score, zcall.name) = {}
        /\ zcall.ret # NULL => zcall.ret \in MembersGE(zcall.score, zcall.name)

\* The keys of the nodes allocated, as znode_cmp reads them.
ZKeys == {[score |-> zs.heap[n].score, name |-> zs.heap[n].name] :
             n \in DOMAIN zs.heap}

StrictPrefix(a, b) == Len(a) < Len(b) /\ SubSeq(b, 1, Len(a)) = a

\* C15: znode_cmp is the lexicographic order on (score, name): 0 only for
\* equal scores and byte-identical names of equal length, antisymmetric,
\* transitive, and with equal scores a strict prefix (the empty name too)
\* is strictly before the longer name.
C15_CmpIsLexOrder ==
    \A a, b \in ZKeys :
        /\ znode_cmp(a, b) = 0 => a.score = b.score /\ a.name = b.name
        /\ znode_cmp(a, b) = 0 - znode_cmp(b, a)
        /\ \A c \in ZKeys :
              znode_cmp(a, b) <= 0 /\ znode_cmp(b, c) <= 0
                  => znode_cmp(a, c) <= 0
        /\ a.score = b.score /\ StrictPrefix(a.name, b.name)
              => znode_cmp(a, b) < 0
        /\ znode_cmp(a, b) < 0 <=> KeyLess(a, b)

\* The rank of a member: how many members have a smaller key.
Rank(n) == Cardinality({m \in Range(HMapNodes) : KeyLess(zs.heap[m], zs.heap[n])})

\* The member at rank r, none (NULL) when r is out of range.
AtRank(r) ==
    IF r < 0 \/ r >= Cardinality(Range(HMapNodes)) THEN NULL
    ELSE CHOOSE n \in Range(HMapNodes) : Rank(n) = r

\* C16: znode_offset(node, k) returns none, a null the caller can test,
\* exactly when rank(node) + k is negative or >= the size, and else the
\* member at rank rank(node) + k.
C16_OffsetNone ==
    zcall.op = "offset" => zcall.ret = AtRank(Rank(zcall.node) + zcall.offset)

\* C17: a range query, seek_ge(score, name) and then offset(_, +1) again
\* and again, visits exactly the members whose key is >= (score, name),
\* each once and in ascending order, and gets none after the last one.
C17_RangeQuery ==
    zcall.op \in {"seekge", "next"} =>
        /\ Len(zcall.walk) <= Cardinality(MembersGE(zcall.score, zcall.name))
        /\ \A i \in 1..Len(zcall.walk) :
              zcall.walk[i] =
                  AtRank(Cardinality(Range(HMapNodes))
                         - Cardinality(MembersGE(zcall.score, zcall.name))
                         + i - 1)
        /\ zcall.ret \notin DOMAIN zs.heap =>
              /\ zcall.ret = NULL
              /\ Len(zcall.walk)
                     = Cardinality(MembersGE(zcall.score, zcall.name))

\* s without the element x.
Without(s, x) == SelectSeq(s, LAMBDA y : y # x)

\* C18: after zset_delete(zset, node) a lookup of the node's name finds
\* nothing, the node is in neither the hmap nor the tree, the set has one
\* member less, and every other member keeps its score and its place in
\* the order: the walk of the tree is the former walk without the node.
C18_DeleteFrame ==
    [][zcall'.op = "delete" =>
          /\ zset_lookup(zs', zcall'.name).node = NULL
          /\ zcall'.node \notin Range(HMapNodes')
          /\ zcall'.node \notin Range(TreeNodes')
          /\ hm_size(zs'.hmap) = hm_size(zs.hmap) - 1
          /\ Range(HMapNodes') = Range(HMapNodes) \ {zcall'.node}
          /\ \A m \in Range(HMapNodes') :
                /\ zs'.heap[m].score = zs.heap[m].score
                /\ zs'.heap[m].name = zs.heap[m].name
          /\ TreeNodes' = Without(TreeNodes, zcall'.node)]_vars

\* C28: zset_clear leaves the set empty, its root null and its hmap of size
\* 0, and releases every node that was inserted and not deleted, each once:
\* no node is left allocated and none is released twice.
C28_ClearReleasesAll ==
    [][zcall'.op = "clear" =>
          /\ zs'.root = NULL
          /\ hm_size(zs'.hmap) = 0
          /\ hm_nodes(zs'.hmap) = <<>>
          /\ zcall'.ret = {}
          /\ NoRepeat(zcall'.walk)
          /\ Range(zcall'.walk) = DOMAIN zs.heap]_vars

----------------------------------------------------------------------------
(* The thread pool.                                                        *)

\* The arguments of the jobs in the queue, and of the jobs the workers are
\* running.
QueueArgs == [i \in 1..Len(pool.queue) |-> pool.queue[i].arg]

RunningJob == {t \in pool.threads : thread[t].pc = "run"}

\* C19: whatever the number of workers and the interleaving, the jobs
\* leave the queue in the order they were pushed, and each job pushed is
\* taken by exactly one worker: it is in the queue, or with the one worker
\* that took it, or has been run once; none is run twice, none is lost,
\* and no worker calls front() on an empty queue.
C19_FifoOnce ==
    /\ ~jobs.underflow
    /\ ~jobs.twice
    /\ NoRepeat(jobs.queued)
    /\ jobs.taken \o QueueArgs = jobs.queued
    /\ \A t \in RunningJob :
          thread[t].w # NULL /\ thread[t].w.arg \notin jobs.run
    /\ \A t, u \in RunningJob : thread[t].w = thread[u].w => t = u
    /\ jobs.run \cup {thread[t].w.arg : t \in RunningJob} = Range(jobs.taken)

\* Two workers are each running a job that they took from the queue, the
\* first pushed taken first.
C19_Witness ==
    /\ Cardinality(RunningJob) = 2
    /\ Len(jobs.taken) = 2
    /\ jobs.taken[1] = jobs.queued[1]

\* C20: with at least one worker, jobs that terminate and threads that are
\* scheduled fairly, every job pushed by thread_pool_queue is run in the
\* end; the notify_one issued after the mutex is released is not lost.
C20_EveryJobRuns ==
    \A j \in 1..MaxJobs : (j \in Range(jobs.queued)) ~> (j \in jobs.run)

\* A job pushed while a worker was blocked in wait has been run after a
\* notification released the worker.
C20_Witness ==
    /\ jobs.woken
    /\ jobs.queued # <<>>
    /\ jobs.run = Range(jobs.queued)

-----------------------------------------------------------------------------
(* After a protocol error.                                                 *)

\* The position in the script of its first frame that breaks the protocol,
\* or 0.
FirstBad(script) ==
    LET B == {i \in 1..Len(script) : script[i] \in BadMenu} IN
    IF B = {} THEN 0 ELSE CHOOSE i \in B : \A j \in B : i <= j

\* A connection on which try_one_request reported a protocol error.
ProtoClosed(f) ==
    /\ fd2conn[f].want_close
    /\ ProtoErrorAtHead(fd2conn[f].incoming)

\* C24: once a protocol error has set want_close on a connection, no
\* request of that connection is executed any more, not even a whole valid
\* request buffered behind the bad frame: no step changes its log of
\* executed requests, the bytes it generated or the keyspace.  The requests
\* before the bad frame were executed, in order, each with the answer the
\* script determines; their responses are the bytes generated, in order; the
\* keyspace holds what they leave.
C24_NothingAfterProtocolError ==
    /\ [](\A f \in Conns :
             ProtoClosed(f) =>
                 LET script == socks[f].script
                     k      == FirstBad(script)
                     before == Take(script, k - 1)
                     log    == hist.c[f].log
                 IN  /\ k > 0
                     /\ Len(log) = k - 1
                     /\ \A i \in 1..(k - 1) :
                            /\ log[i].cmd = ClientCmd(script[i])
                            /\ log[i].resp = RefResponse(before, i)
                     /\ ParseResponses(hist.c[f].gen)
                            = [i \in 1..(k - 1) |-> log[i].resp]
                     /\ DbContents = PlainMapContents(log))
    /\ [][\A f \in Conns :
             ProtoClosed(f) =>
                 /\ db' = db
                 /\ f \in DOMAIN hist'.c => hist'.c[f] = hist.c[f]]_vars

\* One read brought a set, a broken frame and a get: the set was executed
\* and answered, the get stays in the buffer behind the broken frame.
C24_Witness ==
    \E f \in Conns :
        /\ ProtoClosed(f)
        /\ pc = "write"
        /\ Len(socks[f].script) = 3
        /\ socks[f].script[1] = Req(<<STR_SET, KeyK, Val1>>)
        /\ socks[f].script[3] = Req(<<STR_GET, KeyK>>)
        /\ IsSuffix(socks[f].script[3], fd2conn[f].incoming)
        /\ Len(hist.c[f].log) = 1
        /\ DbContents = {<<KeyK, Val1>>}

-----------------------------------------------------------------------------
(* What reaches the socket.                                                *)

\* C25: under partial writes and EAGAIN results, the bytes sent on a
\* connection's socket followed by the bytes still in outgoing are, in
\* every state, exactly the response frames of the connection in the order
\* they were generated: the bytes sent are a prefix of them, and no byte is
\* sent twice, skipped or reordered.
C25_SentIsPrefixOfGenerated ==
    \A f \in Conns :
        /\ socks[f].wire \o fd2conn[f].outgoing = hist.c[f].gen
        /\ IsPrefix(socks[f].wire, hist.c[f].gen)

\* A part of the responses went out, the next write found the socket full,
\* and the rest is still in outgoing.
C25_Witness ==
    \E f \in Conns :
        /\ io.op = "write" /\ io.rv < 0 /\ io.errno = EAGAIN
        /\ socks[f].wire # <<>>
        /\ fd2conn[f].outgoing # <<>>
        /\ Len(hist.c[f].log) = 2

-----------------------------------------------------------------------------
(* The assertions of the event loop.                                       *)

\* C26: no assertion of the event loop fails.  The process is never
\* aborted; where the loop is about to evaluate an assertion, its condition
\* holds: a Conn reported readable has want_read, a Conn reported writable
\* has want_write and a non-empty outgoing buffer when handle_write is
\* entered, every poll entry with an event maps to a registered non-null
\* Conn, and the slot of the fd a successful accept returns is empty.
C26_NoAssertionFails ==
    /\ aborted = "no"
    /\ (pc = "listener" /\ backlog # <<>>) => LowestFreeFd \notin Conns
    /\ (pc = "conns" /\ idx <= Len(poll_args) /\ Ready # {}) => CurFd \in Conns
    /\ (pc = "read" /\ POLLIN \in Ready) => fd2conn[CurFd].want_read
    /\ (pc = "write" /\ POLLOUT \in Ready) =>
           /\ fd2conn[CurFd].want_write
           /\ Len(fd2conn[CurFd].outgoing) > 0

\* The second connection, accepted on the fd the first one had, is
\* reported writable and handle_write is about to be entered.
C26_Witness ==
    /\ pc = "write" /\ POLLOUT \in Ready
    /\ hist.nacc = 2
    /\ hist.c[CurFd].id = 2
    /\ CurFd = ListenFd + 1

\* C27: a worker runs a job only after it has released the pool mutex.  No
\* thread that is running a job holds the mutex; whoever holds it is
\* between taking it and its pop, wait or push, which releases it without
\* regard to the jobs running; so a call of thread_pool_queue is never kept
\* waiting until a running job finishes, and all the workers can be running
\* jobs at the same time.
C27_JobsRunUnlocked ==
    /\ pool.mu \notin RunningJob
    /\ pool.mu # NULL => thread[pool.mu].pc \in {"wait", "push"}
    /\ \A t \in RunningJob : thread[t].w # NULL

\* Every worker of the pool is running a job and the mutex is free.
C27_Witness ==
    /\ RunningJob = pool.threads
    /\ Cardinality(pool.threads) = MaxWorkers
    /\ pool.mu = NULL

-----------------------------------------------------------------------------
(* The progressive-rehash HMap.                                            *)

\* The keys of the nodes the caller inserted and has not deleted.
HLive == (0..(htable.n - 1)) \ htable.gone

KeysOf(nodes) == {nodes[i].key : i \in 1..Len(nodes)}

\* The keys of the nodes reachable in a table.
TabKeys(htab) == KeysOf(chain_nodes(htab.tab, 1, Len(htab.tab)))

\* C22: after any interleaving of hm_insert, hm_lookup and hm_delete, each
\* running its help step, hm_size is the number of nodes reachable in the
\* two tables together (and each table's size is the number reachable in
\* it), the nodes reachable are exactly the live ones, each in one table and
\* once, and the buckets of older below migrate_pos are empty.
C22_HMapInvariant ==
    /\ hm_size(htable.hmap) = Len(hm_nodes(htable.hmap))
    /\ htable.hmap.newer.size = Cardinality(TabKeys(htable.hmap.newer))
    /\ htable.hmap.older.size = Cardinality(TabKeys(htable.hmap.older))
    /\ TabKeys(htable.hmap.newer) \cup TabKeys(htable.hmap.older) = HLive
    /\ TabKeys(htable.hmap.newer) \cap TabKeys(htable.hmap.older) = {}
    /\ \A p \in 1..htable.hmap.migrate_pos :
           htable.hmap.older.tab # <<>> => htable.hmap.older.tab[p] = <<>>

\* A migration is under way between two calls, after inserts and a delete:
\* both tables hold nodes and migrate_pos has moved past the empty bucket.
C22_Witness ==
    /\ htable.hmap.older.size > 0
    /\ htable.hmap.newer.size > 0
    /\ htable.hmap.migrate_pos > 1
    /\ htable.gone # {}

-----------------------------------------------------------------------------
(* The intrusive list.                                                     *)

\* The nodes met by following next from the head until the head comes
\* back, in order; the walk gives up (and ends with NULL) at a null link or
\* when it has made more steps than there are DLists.
Walk ==
    LET RECURSIVE from(_, _)
        from(n, fuel) ==
            IF n = DHead THEN <<>>
            ELSE IF n = NULL \/ fuel = 0 THEN <<NULL>>
            ELSE <<n>> \o from(dl.mem[n].next, fuel - 1)
    IN  from(dl.mem[DHead].next, MaxDNodes + 1)

\* C29: after any sequence of dlist_init on the head, dlist_insert_before
\* of unlinked nodes and dlist_detach of linked nodes other than the head,
\* the list is a consistent ring: following next from the head comes back
\* to the head, every node n on the way and the head itself satisfy
\* n->next->prev == n and n->prev->next == n, every DList that has links is
\* on the ring, and the node just detached has both links null and is not
\* on the ring.
C29_ConsistentRing ==
    DHead \in DLinked =>
        /\ NULL \notin Range(Walk)
        /\ NoRepeat(Walk)
        /\ \A n \in Range(Walk) \cup {DHead} :
               /\ dl.mem[n].next # NULL /\ dl.mem[n].prev # NULL
               /\ dl.mem[dl.mem[n].next].prev = n
               /\ dl.mem[dl.mem[n].prev].next = n
        /\ DOMAIN dl.mem = DLinked \cup DUnlinked
        /\ DLinked = Range(Walk) \cup {DHead}
        /\ dl.op = "detach" =>
               /\ dl.node \in DUnlinked
               /\ dl.node \notin Range(Walk)

\* A node was detached from between two others, which are now neighbours.
C29_Witness ==
    /\ dl.op = "detach"
    /\ Len(Walk) = 2
    /\ dl.node \in DNodes \ Range(Walk)
    /\ dl.mem[Walk[1]].next = Walk[2]
    /\ dl.mem[Walk[2]].prev = Walk[1]
    /\ \E n \in DUnlinked : n # dl.node

\* C30: dlist_insert_before(head, n) links n as the last element, so the
\* walk from the head visits the nodes inserted before the head in the
\* order of insertion; detaching a node leaves the others in their order;
\* dlist_empty(head) is true exactly when no node other than the head is
\* linked: after dlist_init, and again once every node is detached.
C30_InsertionOrder ==
    [][/\ (dl'.op = "insert_before" /\ dl'.list = DHead)
             => Walk' = Append(Walk, dl'.node)
       /\ dl'.op = "detach" => Walk' = Without(Walk, dl'.node)
       /\ dl'.op = "init" => Walk' = <<>> /\ dlist_empty(dl'.mem, DHead)
       /\ dl'.op = "empty" =>
             /\ dl'.ret = (DLinked' = {DHead})
             /\ dl'.ret = (Walk' = <<>>)
       /\ dlist_empty(dl'.mem, DHead) = (DLinked' = {DHead})]_vars

\* A third node was inserted before the head and is the last of the walk,
\* behind the two inserted before it.
C30_Witness ==
    /\ dl.op = "insert_before" /\ dl.list = DHead
    /\ Len(Walk) = 3
    /\ Walk[3] = dl.node
    /\ DNodes \cap DUnlinked # {}

----------------------------------------------------------------------------
(* The TTL heap.                                                           *)

\* C21: after any sequence of update and remove calls, with every swap
\* their sifts made, each Entry whose heap_index is not the sentinel is the
\* entry of the slot it names, each slot's entry names that slot, a removed
\* Entry has the sentinel, and no slot's deadline is below its parent's.
C21_HeapInvariant ==
    /\ \A e \in TTLEntries :
          ttl.idx[e] # -1 =>
              /\ ttl.idx[e] \in 0..(Len(ttl.heap) - 1)
              /\ ttl.heap[ttl.idx[e] + 1].ref = e
    /\ \A i \in 0..(Len(ttl.heap) - 1) : ttl.idx[ttl.heap[i + 1].ref] = i
    /\ ttl.last.op = "remove" => ttl.idx[ttl.last.entry] = -1
    /\ \A i \in 1..(Len(ttl.heap) - 1) :
          ttl.heap[heap_parent(i) + 1].val <= ttl.heap[i + 1].val
    /\ ttl.min = peek_min(ttl)
    /\ ttl.min # NULL => \A i \in 1..Len(ttl.heap) : ttl.min.val <= ttl.heap[i].val

\* A remove out of the full heap, of an entry in a slot without children:
\* the pair of the last slot took its place and was sifted up by a swap.
C21_Witness ==
    /\ ttl.last.op = "remove"
    /\ Len(ttl.heap) = MaxTTLEntries - 1
    /\ heap_left(ttl.last.at) >= Len(ttl.heap)
    /\ ttl.last.at < Len(ttl.heap)
    /\ ttl.swaps >= 2
    /\ ttl.idx[ttl.last.entry] = -1

----------------------------------------------------------------------------
(* The BasicKeyValueStore program.                                         *)

BasicAnswer(status, data) == u32_encode(4 + Len(data)) \o u32_encode(status) \o data

BasicIsGet(cmd) == Len(cmd) = 2 /\ cmd[1] = STR_GET

BasicIsSet(cmd) == Len(cmd) = 3 /\ cmd[1] = STR_SET

BasicIsDel(cmd) == Len(cmd) = 2 /\ cmd[1] = STR_DEL

\* The last set or del of key k among the commands h, <<>> if there is none.
BasicLastWrite(h, k) ==
    LET W == {i \in 1..Len(h) : (BasicIsSet(h[i]) \/ BasicIsDel(h[i])) /\ h[i][2] = k} IN
    IF W = {} THEN <<>> ELSE h[CHOOSE i \in W : \A j \in W : j <= i]

\* What the claim says of the answer to cmd, sent after the commands h.
BasicGetAnswered(h, cmd, out) ==
    BasicIsGet(cmd) =>
        out = IF BasicIsSet(BasicLastWrite(h, cmd[2]))
              THEN BasicAnswer(0, BasicLastWrite(h, cmd[2])[3])
              ELSE BasicAnswer(1, <<>>)

BasicLengthField(out) ==
    out # <<>> => Len(out) >= 8 /\ u32_decode(SubSeq(out, 1, 4)) = 4 + (Len(out) - 8)

\* C23 (as stated): set k v followed by get k answers status 0 with data v;
\* get of a key deleted or never set answers status 1 with empty data; any
\* other command name or argument count answers status 2; the length field
\* of a response is 4 plus the length of its data.
C23_AnyArgumentCount ==
    basic.hist # <<>> =>
        LET cmd == basic.hist[Len(basic.hist)]
            h   == SubSeq(basic.hist, 1, Len(basic.hist) - 1)
        IN /\ BasicGetAnswered(h, cmd, basic.out)
           /\ ~(BasicIsGet(cmd) \/ BasicIsSet(cmd) \/ BasicIsDel(cmd))
                  => basic.out = BasicAnswer(2, <<>>)
           /\ BasicLengthField(basic.out)

\* C23 (amended): the answers to get are as stated, and so is the length
\* field; any other command name or argument count answers status 2 when
\* the command has at most 16 strings; a command of more than 16 strings
\* gets no response: try_one_request returns false and sets want_close.
C23_Responses ==
    basic.hist # <<>> =>
        LET cmd == basic.hist[Len(basic.hist)]
            h   == SubSeq(basic.hist, 1, Len(basic.hist) - 1)
        IN /\ BasicGetAnswered(h, cmd, basic.out)
           /\ (~(BasicIsGet(cmd) \/ BasicIsSet(cmd) \/ BasicIsDel(cmd)) /\ Len(cmd) <= 16)
                  => basic.out = BasicAnswer(2, <<>>)
           /\ Len(cmd) > 16
                  => basic.out = <<>> /\ ~basic.ret /\ basic.conn.want_close
           /\ BasicLengthField(basic.out)

\* A set, then a get of the same key answered with the value, then a
\* command of 17 strings left without a response.
C23_Witness ==
    /\ Len(basic.hist) = 3
    /\ basic.hist[1] = <<STR_SET, KeyK, Val1>>
    /\ basic.hist[2] = <<STR_GET, KeyK>>
    /\ Len(basic.hist[3]) = 17
    /\ basic.out = <<>>
    /\ basic.conn.want_close
    /\ basic.g_data[KeyK] = Val1

=============================================================================
